---- MODULE Spec2Model ----
(***************************************************************************)
(* Head-Room Admission router (vllm_router/routers/routing_logic.py) and   *)
(* the request statistics monitor (vllm_router/stats/request_stats.py).    *)
(*                                                                         *)
(* Python dictionaries are functions whose DOMAIN is the set of keys, so   *)
(* that a lookup of a missing key (KeyError) is visible.  Every hook is an *)
(* operator from a monitor record to [st, exc, ...]: st is the monitor     *)
(* after the call (with the mutations made before an exception was         *)
(* raised), exc the exception that left the call ("none" when it returned  *)
(* normally).                                                              *)
(***************************************************************************)
EXTENDS Integers, Sequences, FiniteSets, TLC

\* ---------------------------------------------------------------- constants
BLOCK_SIZE == 16
TOTAL_NUMBER_OF_BLOCKS == 2756
\* DECODE_TO_PREFILL_RATIO = 0.6 and SAFETY_FRACTION = 0.03, in hundredths.
\* For every token count up to 200000 Python's float expressions
\* ceil(p * (1 + 0.6) / 16) and int(2756 * 0.03) equal the exact values
\* computed here.
DECODE_TO_PREFILL_RATIO == 60
SAFETY_FRACTION == 3

\* ------------------------------------------------------------------- bounds
MaxTime == 1
MaxDecode == 2
MaxWindow == 1
MaxCount == 1
sliding_window_size == 1

Urls == {"r1", "r2", "r3"}
Ids == {"a", "b", "c"}
IdOrder == <<"a", "b", "c">>
\* the requests given to route_request: <<endpoints, num_prefill_tokens>>
Requests == {<<<<"r1">>, 16000>>, <<<<"r1">>, 12000>>, <<<<"r2", "r1">>, 16000>>,
             <<<<"r2", "r1">>, 160>>, <<<<>>, 160>>, <<<<"r1">>, 48000>>}
\* the arguments of the hooks when they are called in any order
HookCalls == {<<"r1", "a">>, <<"r1", "b">>}
UrlCalls == {<<"r1", "a">>, <<"r2", "a">>}
HookPrefill == {160}

\* ------------------------------------------------------------------ helpers
Put(f, k, v) == [x \in DOMAIN f \cup {k} |-> IF x = k THEN v ELSE f[x]]
Del(f, k) == [x \in DOMAIN f \ {k} |-> f[x]]
Get(f, k, d) == IF k \in DOMAIN f THEN f[k] ELSE d
EmptyMap == [x \in {} |-> 0]
CeilDiv(a, b) == (a + b - 1) \div b

RECURSIVE SumOver(_, _)
SumOver(f, S) ==
  IF S = {} THEN 0
  ELSE LET x == CHOOSE y \in S : TRUE IN f[x] + SumOver(f, S \ {x})

RECURSIVE SeqSum(_)
SeqSum(s) == IF s = <<>> THEN 0 ELSE Head(s) + SeqSum(Tail(s))

\* ----------------------------------------------------- MovingAverageMonitor
NewWindow == [timestamps |-> <<>>, values |-> <<>>]

RECURSIVE update_no_value(_, _)
update_no_value(w, timestamp) ==
  IF Len(w.timestamps) > 0 /\ Head(w.timestamps) < timestamp - sliding_window_size
  THEN update_no_value([timestamps |-> Tail(w.timestamps),
                        values |-> Tail(w.values)], timestamp)
  ELSE w

\* an update that appends and evicts nothing
update_Unevicted(w, timestamp, value) ==
  [timestamps |-> Append(w.timestamps, timestamp), values |-> Append(w.values, value)]

update(w, timestamp, value) ==
  update_no_value([timestamps |-> Append(w.timestamps, timestamp),
                   values |-> Append(w.values, value)], timestamp)

get_sum(w) == SeqSum(w.values)

\* average as <<sum, count>>; <<-1, 1>> stands for the -1 of an empty window
get_average(w) ==
  IF Len(w.values) > 0 THEN <<SeqSum(w.values), Len(w.values)>> ELSE <<-1, 1>>

\* ------------------------------------------------------ RequestStatsMonitor
VARIABLES
  request_arrival_time,      \* request_id -> timestamp
  first_token_time,          \* <<engine_url, request_id>> -> timestamp
  in_prefill_requests_ids,   \* engine_url -> set of request_id
  in_decoding_requests_ids,  \* engine_url -> set of request_id
  finished_requests,         \* engine_url -> count
  request_decode_tokens,     \* engine_url -> (request_id -> count)
  request_prefill_tokens,    \* engine_url -> (request_id -> count)
  swapped_requests,          \* engine_url -> count
  first_query_time,          \* <<>> for None, <<t>> otherwise
  qps_monitors,              \* engine_url -> window
  ttft_monitors,
  latency_monitors,
  decoding_length_monitors

monitorVars == <<request_arrival_time, first_token_time, in_prefill_requests_ids,
                 in_decoding_requests_ids, finished_requests, request_decode_tokens,
                 request_prefill_tokens, swapped_requests, first_query_time,
                 qps_monitors, ttft_monitors, latency_monitors,
                 decoding_length_monitors>>

Monitor ==
  [request_arrival_time |-> request_arrival_time,
   first_token_time |-> first_token_time,
   in_prefill_requests_ids |-> in_prefill_requests_ids,
   in_decoding_requests_ids |-> in_decoding_requests_ids,
   finished_requests |-> finished_requests,
   request_decode_tokens |-> request_decode_tokens,
   request_prefill_tokens |-> request_prefill_tokens,
   swapped_requests |-> swapped_requests,
   first_query_time |-> first_query_time,
   qps_monitors |-> qps_monitors,
   ttft_monitors |-> ttft_monitors,
   latency_monitors |-> latency_monitors,
   decoding_length_monitors |-> decoding_length_monitors]

RequestStatsMonitorInit ==
  [request_arrival_time |-> EmptyMap,
   first_token_time |-> EmptyMap,
   in_prefill_requests_ids |-> EmptyMap,
   in_decoding_requests_ids |-> EmptyMap,
   finished_requests |-> EmptyMap,
   request_decode_tokens |-> EmptyMap,
   request_prefill_tokens |-> EmptyMap,
   swapped_requests |-> EmptyMap,
   first_query_time |-> <<>>,
   qps_monitors |-> EmptyMap,
   ttft_monitors |-> EmptyMap,
   latency_monitors |-> EmptyMap,
   decoding_length_monitors |-> EmptyMap]

SetMonitor(m) ==
  /\ request_arrival_time' = m.request_arrival_time
  /\ first_token_time' = m.first_token_time
  /\ in_prefill_requests_ids' = m.in_prefill_requests_ids
  /\ in_decoding_requests_ids' = m.in_decoding_requests_ids
  /\ finished_requests' = m.finished_requests
  /\ request_decode_tokens' = m.request_decode_tokens
  /\ request_prefill_tokens' = m.request_prefill_tokens
  /\ swapped_requests' = m.swapped_requests
  /\ first_query_time' = m.first_query_time
  /\ qps_monitors' = m.qps_monitors
  /\ ttft_monitors' = m.ttft_monitors
  /\ latency_monitors' = m.latency_monitors
  /\ decoding_length_monitors' = m.decoding_length_monitors

\* RequestStatsMonitor.__init__
MonitorInit ==
  /\ request_arrival_time = RequestStatsMonitorInit.request_arrival_time
  /\ first_token_time = RequestStatsMonitorInit.first_token_time
  /\ in_prefill_requests_ids = RequestStatsMonitorInit.in_prefill_requests_ids
  /\ in_decoding_requests_ids = RequestStatsMonitorInit.in_decoding_requests_ids
  /\ finished_requests = RequestStatsMonitorInit.finished_requests
  /\ request_decode_tokens = RequestStatsMonitorInit.request_decode_tokens
  /\ request_prefill_tokens = RequestStatsMonitorInit.request_prefill_tokens
  /\ swapped_requests = RequestStatsMonitorInit.swapped_requests
  /\ first_query_time = RequestStatsMonitorInit.first_query_time
  /\ qps_monitors = RequestStatsMonitorInit.qps_monitors
  /\ ttft_monitors = RequestStatsMonitorInit.ttft_monitors
  /\ latency_monitors = RequestStatsMonitorInit.latency_monitors
  /\ decoding_length_monitors = RequestStatsMonitorInit.decoding_length_monitors

Ok(m) == [st |-> m, exc |-> "none"]
Raise(m, e) == [st |-> m, exc |-> e]

\* del d[url][id], and del d[url] when that leaves d[url] empty
DelToken(d, url, id) ==
  IF url \in DOMAIN d /\ id \in DOMAIN d[url]
  THEN IF DOMAIN d[url] = {id} THEN Del(d, url)
       ELSE [d EXCEPT ![url] = Del(@, id)]
  ELSE d

on_request_arrival(m, request_id, timestamp) ==
  Ok([m EXCEPT !.request_arrival_time = Put(@, request_id, timestamp),
               !.first_query_time = IF @ = <<>> THEN <<timestamp>> ELSE @])

on_request_start(m, engine_url, request_id, timestamp) ==
  Ok([m EXCEPT !.qps_monitors =
        Put(@, engine_url, update(Get(@, engine_url, NewWindow), timestamp, 1))])

\* a routing that forgets the decode tokens counted for the request so far
on_request_routed_ResetTokens(m, engine_url, request_id, prefill_tokens) ==
  Ok([m EXCEPT
        !.request_decode_tokens = DelToken(@, engine_url, request_id),
        !.request_prefill_tokens =
           Put(@, engine_url, Put(Get(@, engine_url, EmptyMap), request_id, prefill_tokens)),
        !.in_prefill_requests_ids =
           Put(@, engine_url, Get(@, engine_url, {}) \cup {request_id})])

\* lines 174-182
on_request_routed(m, engine_url, request_id, prefill_tokens) ==
  Ok([m EXCEPT
        !.request_prefill_tokens =
           Put(@, engine_url, Put(Get(@, engine_url, EmptyMap), request_id, prefill_tokens)),
        !.in_prefill_requests_ids =
           Put(@, engine_url, Get(@, engine_url, {}) \cup {request_id})])

\* lines 185-188
KillArrival(m, engine_url, request_id) ==
  IF request_id \in DOMAIN m.request_arrival_time
  THEN IF engine_url \notin DOMAIN m.in_prefill_requests_ids
       THEN Raise(m, "KeyError")
       ELSE Ok([m EXCEPT !.in_prefill_requests_ids[engine_url] = @ \ {request_id},
                         !.request_arrival_time = Del(@, request_id)])
  ELSE Ok(m)

\* the first token record deleted, the id left in the decoding set
KillFirstToken_KeepDecoding(m, engine_url, request_id) ==
  Ok([m EXCEPT !.first_token_time =
        IF <<engine_url, request_id>> \in DOMAIN @ THEN Del(@, <<engine_url, request_id>>) ELSE @])

\* lines 189-192
KillFirstToken(m, engine_url, request_id) ==
  IF <<engine_url, request_id>> \in DOMAIN m.first_token_time
  THEN IF engine_url \notin DOMAIN m.in_decoding_requests_ids
       THEN Raise(m, "KeyError")
       ELSE Ok([m EXCEPT !.in_decoding_requests_ids[engine_url] = @ \ {request_id},
                         !.first_token_time = Del(@, <<engine_url, request_id>>)])
  ELSE Ok(m)

\* on_request_kill forgetting the decode token count of the request
KillTokens_KeepDecode(m, engine_url, request_id) ==
  Ok([m EXCEPT !.request_prefill_tokens = DelToken(@, engine_url, request_id)])

\* lines 193-204
KillTokens(m, engine_url, request_id) ==
  Ok([m EXCEPT !.request_decode_tokens = DelToken(@, engine_url, request_id),
               !.request_prefill_tokens = DelToken(@, engine_url, request_id)])

on_request_kill(m, engine_url, request_id) ==
  LET r1 == KillArrival(m, engine_url, request_id) IN
  IF r1.exc # "none" THEN r1 ELSE
  LET r2 == KillFirstToken(r1.st, engine_url, request_id) IN
  IF r2.exc # "none" THEN r2 ELSE
  KillTokens(r2.st, engine_url, request_id)

\* the count started again at 1 for every token
CountToken_Restarted(m, engine_url, request_id) ==
  [m EXCEPT !.request_decode_tokens =
     Put(@, engine_url, Put(Get(@, engine_url, EmptyMap), request_id, 1))]

\* lines 216-220
CountToken(m, engine_url, request_id) ==
  [m EXCEPT !.request_decode_tokens =
     Put(@, engine_url,
         Put(Get(@, engine_url, EmptyMap), request_id,
             Get(Get(@, engine_url, EmptyMap), request_id, 0) + 1))]

\* lines 230-243
FirstToken(m, engine_url, request_id, timestamp) ==
  IF engine_url \notin DOMAIN m.in_prefill_requests_ids
  THEN Raise(m, "KeyError")
  ELSE Ok([m EXCEPT
        !.in_prefill_requests_ids[engine_url] = @ \ {request_id},
        !.in_decoding_requests_ids =
           Put(@, engine_url, Get(@, engine_url, {}) \cup {request_id}),
        !.first_token_time = Put(@, <<engine_url, request_id>>, timestamp),
        !.ttft_monitors =
           Put(@, engine_url,
               update(Get(@, engine_url, NewWindow), timestamp,
                      timestamp - m.request_arrival_time[request_id]))])

on_request_response(m, engine_url, request_id, timestamp, is_first_token) ==
  LET m1 == CountToken(m, engine_url, request_id) IN
  IF ~is_first_token THEN Ok(m1)
  ELSE IF request_id \notin DOMAIN m1.request_arrival_time
       THEN on_request_kill(m1, engine_url, request_id)
       ELSE FirstToken(m1, engine_url, request_id, timestamp)

\* a normal completion that does not count the request
CompleteNormal_NotCounted(m, engine_url, request_id, timestamp) ==
  Ok([m EXCEPT
        !.in_decoding_requests_ids[engine_url] = @ \ {request_id},
        !.request_decode_tokens = DelToken(@, engine_url, request_id),
        !.request_prefill_tokens = DelToken(@, engine_url, request_id),
        !.request_arrival_time = Del(@, request_id),
        !.first_token_time = Del(@, <<engine_url, request_id>>)])

\* lines 263-295
CompleteNormal(m, engine_url, request_id, timestamp) ==
  IF engine_url \notin DOMAIN m.in_decoding_requests_ids
  THEN Raise(m, "KeyError")
  ELSE Ok([m EXCEPT
        !.in_decoding_requests_ids[engine_url] = @ \ {request_id},
        !.finished_requests = Put(@, engine_url, Get(@, engine_url, 0) + 1),
        !.latency_monitors =
           Put(@, engine_url,
               update(Get(@, engine_url, NewWindow), timestamp,
                      timestamp - m.request_arrival_time[request_id])),
        !.decoding_length_monitors =
           Put(@, engine_url,
               update(Get(@, engine_url, NewWindow), timestamp,
                      timestamp - m.first_token_time[<<engine_url, request_id>>])),
        !.request_decode_tokens = DelToken(@, engine_url, request_id),
        !.request_prefill_tokens = DelToken(@, engine_url, request_id),
        !.request_arrival_time = Del(@, request_id),
        !.first_token_time = Del(@, <<engine_url, request_id>>)])

\* lines 254-261: the two records the normal path needs
CompleteIsNormal(m, engine_url, request_id) ==
  /\ request_id \in DOMAIN m.request_arrival_time
  /\ <<engine_url, request_id>> \in DOMAIN m.first_token_time

on_request_complete(m, engine_url, request_id, timestamp) ==
  IF CompleteIsNormal(m, engine_url, request_id)
  THEN CompleteNormal(m, engine_url, request_id, timestamp)
  ELSE on_request_kill(m, engine_url, request_id)

\* a swap that also takes the request out of the decoding set
on_request_swapped_Evicting(m, engine_url, request_id, timestamp) ==
  Ok([m EXCEPT !.swapped_requests = Put(@, engine_url, Get(@, engine_url, 0) + 1),
               !.in_decoding_requests_ids =
                  IF engine_url \in DOMAIN @ THEN [@ EXCEPT ![engine_url] = @ \ {request_id}]
                  ELSE @])

\* lines 306-308
on_request_swapped(m, engine_url, request_id, timestamp) ==
  Ok([m EXCEPT !.swapped_requests = Put(@, engine_url, Get(@, engine_url, 0) + 1)])

\* the iteration orders of a Python set with the elements S
Orders(S) ==
  {o \in UNION {[1..n -> S] : n \in {Cardinality(S)}} :
     \A i, j \in DOMAIN o : i # j => o[i] # o[j]}

EvictAt(ws, engine_url, current_time) ==
  IF engine_url \in DOMAIN ws
  THEN [ws EXCEPT ![engine_url] = update_no_value(@, current_time)]
  ELSE ws

\* lines 327-381: one iteration of the loop over the urls
StatsOf(m, engine_url, current_time) ==
  [qps |-> IF engine_url \in DOMAIN m.qps_monitors
           THEN <<get_sum(m.qps_monitors[engine_url]), sliding_window_size>>
           ELSE <<-1, 1>>,
   ttft |-> IF engine_url \in DOMAIN m.ttft_monitors
            THEN get_average(m.ttft_monitors[engine_url]) ELSE <<-1, 1>>,
   in_prefill_requests |-> Cardinality(Get(m.in_prefill_requests_ids, engine_url, {})),
   in_decoding_requests |-> Cardinality(Get(m.in_decoding_requests_ids, engine_url, {})),
   ts_prefill_enqueue |->
      [r \in Get(m.in_prefill_requests_ids, engine_url, {}) |->
         current_time - m.request_arrival_time[r]],
   ts_decoding_enqueue |->
      [r \in Get(m.in_decoding_requests_ids, engine_url, {}) |->
         current_time - m.first_token_time[<<engine_url, r>>]],
   finished_requests |-> Get(m.finished_requests, engine_url, 0),
   avg_decoding_length |-> IF engine_url \in DOMAIN m.decoding_length_monitors
            THEN get_average(m.decoding_length_monitors[engine_url]) ELSE <<-1, 1>>,
   avg_latency |-> IF engine_url \in DOMAIN m.latency_monitors
            THEN get_average(m.latency_monitors[engine_url]) ELSE <<-1, 1>>,
   avg_itl |-> <<-1, 1>>,
   num_swapped_requests |-> Get(m.swapped_requests, engine_url, 0)]

\* lines 345-348: the lookups that raise KeyError
StatsLookupFails(m, engine_url) ==
  \/ \E r \in Get(m.in_prefill_requests_ids, engine_url, {}) :
        r \notin DOMAIN m.request_arrival_time
  \/ \E r \in Get(m.in_decoding_requests_ids, engine_url, {}) :
        <<engine_url, r>> \notin DOMAIN m.first_token_time

RECURSIVE StatsLoop(_, _, _, _)
StatsLoop(m, order, current_time, ret) ==
  IF order = <<>> THEN [st |-> m, exc |-> "none", ret |-> ret]
  ELSE LET engine_url == Head(order)
           m1 == [m EXCEPT !.qps_monitors = EvictAt(@, engine_url, current_time),
                           !.ttft_monitors = EvictAt(@, engine_url, current_time)]
           m2 == [m1 EXCEPT
                    !.decoding_length_monitors = EvictAt(@, engine_url, current_time),
                    !.latency_monitors = EvictAt(@, engine_url, current_time)]
       IN IF StatsLookupFails(m1, engine_url)
          THEN [st |-> m1, exc |-> "KeyError", ret |-> ret]
          ELSE StatsLoop(m2, Tail(order), current_time,
                         Put(ret, engine_url, StatsOf(m2, engine_url, current_time)))

StatsUrls(m) == DOMAIN m.in_prefill_requests_ids \cup DOMAIN m.in_decoding_requests_ids

\* order: the order in which the set of urls is iterated
get_request_stats(m, current_time, order) ==
  StatsLoop(m, order, current_time, EmptyMap)

\* lines 402-404: the assertion of estimate_allocated_blocks
AllocatedAssertFails(m, engine_url) ==
  \E request_id \in DOMAIN m.request_decode_tokens[engine_url] :
     request_id \notin m.in_decoding_requests_ids[engine_url]

\* the prefill tokens of the request left out of its blocks
AllocatedBlocksOf_DecodeOnly(m, engine_url, request_id) ==
  CeilDiv(m.request_decode_tokens[engine_url][request_id], BLOCK_SIZE)

AllocatedBlocksOf(m, engine_url, request_id) ==
  CeilDiv(Get(Get(m.request_prefill_tokens, engine_url, EmptyMap), request_id, 0)
            + m.request_decode_tokens[engine_url][request_id],
          BLOCK_SIZE)

estimate_allocated_blocks(m, engine_url) ==
  IF engine_url \notin DOMAIN m.request_decode_tokens
       \/ engine_url \notin DOMAIN m.in_decoding_requests_ids
  THEN [val |-> 0, exc |-> "none"]
  ELSE IF AllocatedAssertFails(m, engine_url)
       THEN [val |-> 0, exc |-> "AssertionError"]
       ELSE [val |-> SumOver([r \in DOMAIN m.request_decode_tokens[engine_url] |->
                                 AllocatedBlocksOf(m, engine_url, r)],
                             DOMAIN m.request_decode_tokens[engine_url]),
             exc |-> "none"]

\* ceil(tokens * (1 + DECODE_TO_PREFILL_RATIO) / BLOCK_SIZE)
ExpectedBlocks(tokens) ==
  CeilDiv(tokens * (100 + DECODE_TO_PREFILL_RATIO), 100 * BLOCK_SIZE)

estimate_pending_reserved_blocks(m, engine_url) ==
  IF engine_url \notin DOMAIN m.request_prefill_tokens THEN 0
  ELSE ExpectedBlocks(SumOver(m.request_prefill_tokens[engine_url],
                              DOMAIN m.request_prefill_tokens[engine_url]))

\* ------------------------------------------------------------------ HRARouter
VARIABLES
  queue,     \* HRARouter._queue: entries [prefill_tokens, arrived_at, endpoints, request_id]
  future,    \* request_id -> "none" | "pending" | "cancelled" | the url it was resolved with
  now,       \* the timestamp the serving layer passes to the hooks
  clock      \* the number of route_request calls so far: the order of their time.time()

\* _QueuedRequest.sort_index: (prefill_tokens, arrived_at), compared as tuples
SortsBefore(x, y) ==
  \/ x.prefill_tokens < y.prefill_tokens
  \/ x.prefill_tokens = y.prefill_tokens /\ x.arrived_at < y.arrived_at

RECURSIVE InsertSorted(_, _)
InsertSorted(s, e) ==
  IF s = <<>> THEN <<e>>
  ELSE IF SortsBefore(e, Head(s)) THEN <<e>> \o s
  ELSE <<Head(s)>> \o InsertSorted(Tail(s), e)

\* the sort left out: the new entry stays where append put it
sort_AppendOnly(s) == s

\* list.sort(): stable, ascending
RECURSIVE sort(_)
sort(s) ==
  IF s = <<>> THEN <<>>
  ELSE InsertSorted(sort(SubSeq(s, 1, Len(s) - 1)), s[Len(s)])

\* int(TOTAL_NUMBER_OF_BLOCKS * SAFETY_FRACTION)
min_free_blocks == (TOTAL_NUMBER_OF_BLOCKS * SAFETY_FRACTION) \div 100

\* lines 371-373
req_blocks(prefill_tokens) == ExpectedBlocks(prefill_tokens)

\* the entry's own blocks left out of the projected usage
HasHeadRoom_NoNeed(allocated, pending, need) ==
  TOTAL_NUMBER_OF_BLOCKS - (allocated + pending) >= min_free_blocks

\* lines 378-380
HasHeadRoom(allocated, pending, need) ==
  TOTAL_NUMBER_OF_BLOCKS - (allocated + pending + need) >= min_free_blocks

\* lines 375-381
admissible(qr, allocated_blocks, pending_reserved_blocks) ==
  SelectSeq(qr.endpoints,
            LAMBDA url : HasHeadRoom(allocated_blocks[url], pending_reserved_blocks[url],
                                     req_blocks(qr.prefill_tokens)))

\* the first admissible url taken, whatever the queue lengths
target_url_FirstAdmissible(adm, queue_lengths) == adm[1]

\* min(admissible, key = queue_lengths): the first of the minimal ones
target_url(adm, queue_lengths) ==
  adm[CHOOSE i \in 1..Len(adm) :
        /\ \A j \in 1..Len(adm) : queue_lengths[adm[i]] <= queue_lengths[adm[j]]
        /\ \A j \in 1..(i - 1) : queue_lengths[adm[j]] > queue_lengths[adm[i]]]

\* the reservation of an admission not carried to the next iterations
ReservePending_Forgotten(pending_reserved_blocks, url, need) == pending_reserved_blocks

\* line 401
ReservePending(pending_reserved_blocks, url, need) ==
  [pending_reserved_blocks EXCEPT ![url] = @ + need]

\* the blocked entry skipped instead of ending the sweep
OnBlocked_Skip(s) == [s EXCEPT !.idx = @ + 1]

\* lines 383-386: no admissible url for the entry at idx
OnBlocked(s) == [s EXCEPT !.stop = TRUE]

\* the admitted entry left in the queue
Commit_NoPop(s, qr, url, need) ==
  LET m1 == on_request_routed(s.st, url, qr.request_id, qr.prefill_tokens).st IN
  IF s.future[qr.request_id] # "pending"
  THEN [s EXCEPT !.st = m1, !.exc = "InvalidStateError", !.stop = TRUE,
                 !.routed = Append(@, qr.request_id)]
  ELSE [s EXCEPT !.st = m1,
                 !.routed = Append(@, qr.request_id),
                 !.future[qr.request_id] = url,
                 !.pending_reserved_blocks = ReservePending(@, url, need),
                 !.queue_lengths[url] = @ + 1,
                 !.admitted = Append(@, [request_id |-> qr.request_id, url |-> url,
                                         prefill_tokens |-> qr.prefill_tokens,
                                         arrived_at |-> qr.arrived_at])]

\* lines 394-402
Commit(s, qr, url, need) ==
  LET m1 == on_request_routed(s.st, url, qr.request_id, qr.prefill_tokens).st IN
  IF s.future[qr.request_id] # "pending"
  THEN \* Future.set_result on a future that is cancelled or done
       [s EXCEPT !.st = m1, !.exc = "InvalidStateError", !.stop = TRUE,
                 !.routed = Append(@, qr.request_id)]
  ELSE [s EXCEPT !.st = m1,
                 !.routed = Append(@, qr.request_id),
                 !.future[qr.request_id] = url,
                 !.queue = SubSeq(@, 1, s.idx) \o SubSeq(@, s.idx + 2, Len(@)),
                 !.pending_reserved_blocks = ReservePending(@, url, need),
                 !.queue_lengths[url] = @ + 1,
                 !.admitted = Append(@, [request_id |-> qr.request_id, url |-> url,
                                         prefill_tokens |-> qr.prefill_tokens,
                                         arrived_at |-> qr.arrived_at])]

\* lines 366-403; idx counts from 0 as in the source
RECURSIVE ScheduleLoop(_)
ScheduleLoop(s) ==
  IF s.stop \/ ~(s.idx < Len(s.queue)) THEN s
  ELSE LET qr == s.queue[s.idx + 1]
           adm == admissible(qr, s.allocated_blocks, s.pending_reserved_blocks)
       IN IF adm = <<>>
          THEN ScheduleLoop(OnBlocked(s))
          ELSE ScheduleLoop(Commit(s, qr, target_url(adm, s.queue_lengths),
                                   req_blocks(qr.prefill_tokens)))

replica_urls(q) == UNION {{qr.endpoints[i] : i \in 1..Len(qr.endpoints)} :
                            qr \in {q[k] : k \in 1..Len(q)}}

NoSweep ==
  [ran |-> FALSE, before |-> <<>>, allocated_blocks |-> EmptyMap,
   pending_reserved_blocks |-> EmptyMap, queue_lengths |-> EmptyMap,
   admitted |-> <<>>, routed |-> <<>>]

\* HRARouter._try_schedule.  Returns the monitor, the queue and the futures after
\* the call, the exception that left it, and a record of what the sweep did.
try_schedule(m, q, fut, current_time, order) ==
  IF q = <<>> THEN [st |-> m, queue |-> q, future |-> fut, exc |-> "none", sweep |-> NoSweep]
  ELSE
  LET snap == get_request_stats(m, current_time, order)
      urls == replica_urls(q)
      alloc == [url \in urls |-> estimate_allocated_blocks(snap.st, url)]
      before == [NoSweep EXCEPT !.ran = TRUE, !.before = q]
  IN
  IF snap.exc # "none"
  THEN [st |-> snap.st, queue |-> q, future |-> fut, exc |-> snap.exc, sweep |-> before]
  ELSE IF \E url \in urls : alloc[url].exc # "none"
  THEN [st |-> snap.st, queue |-> q, future |-> fut, exc |-> "AssertionError",
        sweep |-> before]
  ELSE
  LET allocated_blocks == [url \in urls |-> alloc[url].val]
      pending_reserved_blocks ==
         [url \in urls |-> estimate_pending_reserved_blocks(snap.st, url)]
      queue_lengths ==
         [url \in urls |->
            IF url \in DOMAIN snap.ret
            THEN snap.ret[url].in_prefill_requests + snap.ret[url].in_decoding_requests
            ELSE 0]
      s == ScheduleLoop([st |-> snap.st, queue |-> q, future |-> fut, idx |-> 0,
                         stop |-> FALSE, exc |-> "none",
                         allocated_blocks |-> allocated_blocks,
                         pending_reserved_blocks |-> pending_reserved_blocks,
                         queue_lengths |-> queue_lengths,
                         admitted |-> <<>>, routed |-> <<>>])
  IN [st |-> s.st, queue |-> s.queue, future |-> s.future, exc |-> s.exc,
      sweep |-> [ran |-> TRUE, before |-> q,
                 allocated_blocks |-> allocated_blocks,
                 pending_reserved_blocks |-> pending_reserved_blocks,
                 queue_lengths |-> queue_lengths,
                 admitted |-> s.admitted, routed |-> s.routed]]

\* HRARouter.route_request: lines 303-318
route_request(m, q, fut, endpoints, request_id, num_prefill_tokens, arrived_at, current_time, order) ==
  LET queued_req == [prefill_tokens |-> num_prefill_tokens, arrived_at |-> arrived_at,
                     endpoints |-> endpoints, request_id |-> request_id]
  IN try_schedule(m, sort(Append(q, queued_req)),
                  [fut EXCEPT ![request_id] = "pending"], current_time, order)

\* the hook returning without a sweep
hra_on_request_complete_NoSweep(m, q, fut, engine_url, current_time, order) ==
  [st |-> m, queue |-> q, future |-> fut, exc |-> "none", sweep |-> NoSweep]

\* HRARouter.on_request_complete: lines 320-328
hra_on_request_complete(m, q, fut, engine_url, current_time, order) ==
  try_schedule(m, q, fut, current_time, order)

\* ------------------------------------------------- the policies without queue
VARIABLES
  policy,     \* the RoutingLogic of the router that is installed
  req_id,     \* RoundRobinRouter.req_id
  hash_ring,  \* SessionRouter.hash_ring: the set of its nodes
  recent,     \* the last route_request calls of a policy that answers at once, newest last
  instances   \* SingletonMeta._instances and SingletonABCMeta._instances: class -> instance

policyVars == <<policy, req_id, hash_ring, recent, instances>>

\* RoutingLogic
Policies == {"roundrobin", "session", "llq", "custom", "hra"}

\* --- the singletons: the monitor and the routers
\* the classes of the routers, in the order in which the registry looks them up
RouterClasses == <<"session", "roundrobin", "llq", "hra", "custom">>

\* __init__ of the class raises ValueError for this argument: the monitor without
\* a sliding_window_size, the session router without a session_key
InitRaises(cls, arg) == cls \in {"RequestStatsMonitor", "session"} /\ arg = "None"

\* an instance that is built again for every call that gives an argument
SingletonMeta_Rebuilt(inst, cls, arg, serial) ==
  IF cls \in DOMAIN inst /\ arg = "None"
  THEN [instances |-> inst, ret |-> cls, exc |-> "none"]
  ELSE IF InitRaises(cls, arg)
       THEN [instances |-> inst, ret |-> "None", exc |-> "ValueError"]
       ELSE [instances |-> Put(inst, cls, [made |-> serial, arg |-> arg]),
             ret |-> cls, exc |-> "none"]

\* SingletonMeta.__call__: cls(arg); serial tells the instances made apart
SingletonMeta(inst, cls, arg, serial) ==
  IF cls \in DOMAIN inst
  THEN [instances |-> inst, ret |-> cls, exc |-> "none"]
  ELSE IF InitRaises(cls, arg)
       THEN [instances |-> inst, ret |-> "None", exc |-> "ValueError"]
       ELSE [instances |-> Put(inst, cls, [made |-> serial, arg |-> arg]),
             ret |-> cls, exc |-> "none"]

\* SingletonABCMeta.__call__: one instance per class, as SingletonMeta
SingletonABCMeta(inst, cls, arg, serial) == SingletonMeta(inst, cls, arg, serial)

\* initialize_request_stats_monitor(sliding_window_size)
initialize_request_stats_monitor(inst, window, serial) ==
  SingletonMeta(inst, "RequestStatsMonitor", window, serial)

\* get_request_stats_monitor()
get_request_stats_monitor(inst, serial) ==
  SingletonMeta(inst, "RequestStatsMonitor", "None", serial)

\* initialize_routing_logic(routing_logic, session_key = session_key)
initialize_routing_logic(inst, routing_logic, session_key, serial) ==
  IF routing_logic \in Policies
  THEN SingletonABCMeta(inst, routing_logic,
                        IF routing_logic = "session" THEN session_key ELSE "-", serial)
  ELSE [instances |-> inst, ret |-> "None", exc |-> "ValueError"]

\* reconfigure_routing_logic(routing_logic, session_key = session_key)
reconfigure_routing_logic(inst, routing_logic, session_key, serial) ==
  LET kept == DOMAIN inst \ {RouterClasses[i] : i \in DOMAIN RouterClasses}
  IN initialize_routing_logic([cls \in kept |-> inst[cls]], routing_logic, session_key, serial)

\* get_routing_logic()
get_routing_logic(inst) ==
  LET created == SelectSeq(RouterClasses, LAMBDA cls : cls \in DOMAIN inst)
  IN IF created = <<>>
     THEN [instances |-> inst, ret |-> "None", exc |-> "ValueError"]
     ELSE SingletonABCMeta(inst, Head(created), "None", 0)

\* the instances after the start of the process: the monitor with its window and
\* the router of one routing logic
Started(routing_logic) ==
  initialize_routing_logic(
    initialize_request_stats_monitor(EmptyMap, ToString(sliding_window_size), 0).instances,
    routing_logic, "x-user-id", 0).instances

\* the urls in lexicographic order
UrlOrder == <<"r1", "r2", "r3">>

\* the values of the session header of a request; "None": the header is absent
SessionIds == {"None", "s1", "s2"}

\* the order in which the hash of a session id meets the nodes on the ring
RingOrder == [s1 |-> <<"r1", "r2", "r3">>, s2 |-> <<"r2", "r3", "r1">>]

\* the endpoint lists given to the policies
EndpointLists == {<<>>, <<"r1">>, <<"r1", "r2">>, <<"r2", "r1">>}

Range(seq) == {seq[i] : i \in 1..Len(seq)}

\* how many calls recent keeps
Remembered == 3

\* a call and the url it returned, appended to recent
Remember(calls, endpoints, session_id, url) ==
  LET all == Append(calls, [endpoints |-> endpoints, session_id |-> session_id, url |-> url])
  IN IF Len(all) > Remembered THEN Tail(all) ELSE all

\* sorted(endpoints, key = lambda e: e.url), for endpoints of distinct urls
sorted(endpoints) == SelectSeq(UrlOrder, LAMBDA u : u \in Range(endpoints))

\* x < y for the numbers x[1] / x[2] and y[1] / y[2]; <<1, 0>> is float("inf")
Less(x, y) == x[1] * y[2] < y[1] * x[2]

\* the loop with "<=" for "<": on a tie the url listed last is kept
RECURSIVE LowestLoop_LastWins(_, _, _, _)
LowestLoop_LastWins(endpoints, work, lowest_work, ret) ==
  IF endpoints = <<>> THEN ret
  ELSE LET url == Head(endpoints) IN
       IF ~Less(lowest_work, work[url])
       THEN LowestLoop_LastWins(Tail(endpoints), work, work[url], url)
       ELSE LowestLoop_LastWins(Tail(endpoints), work, lowest_work, ret)

\* the loop "if endpoint_work < lowest_work: lowest_work, ret = endpoint_work, url"
RECURSIVE LowestLoop(_, _, _, _)
LowestLoop(endpoints, work, lowest_work, ret) ==
  IF endpoints = <<>> THEN ret
  ELSE LET url == Head(endpoints) IN
       IF Less(work[url], lowest_work)
       THEN LowestLoop(Tail(endpoints), work, work[url], url)
       ELSE LowestLoop(Tail(endpoints), work, lowest_work, ret)

\* what a route_request gives back: the monitor after the call, the value
\* returned ("None" for None) and the exception that left the call
Routed(m, ret, exc) == [st |-> m, ret |-> ret, exc |-> exc]

\* RoundRobinRouter.route_request returning before it tells the monitor
RoundRobin_NotRouted(m, counter, endpoints, request_id, num_prefill_tokens) ==
  IF Len(endpoints) = 0
  THEN [req_id |-> counter] @@ Routed(m, "None", "ZeroDivisionError")
  ELSE [req_id |-> counter + 1]
         @@ Routed(m, sorted(endpoints)[(counter % Len(endpoints)) + 1], "none")

\* the list indexed as it was given
RoundRobin_Unsorted(m, counter, endpoints, request_id, num_prefill_tokens) ==
  LET chosen == endpoints[(counter % Len(endpoints)) + 1] IN
  [req_id |-> counter + 1]
    @@ Routed(on_request_routed(m, chosen, request_id, num_prefill_tokens).st, chosen, "none")

\* RoundRobinRouter.route_request: lines 80-85
RoundRobin(m, counter, endpoints, request_id, num_prefill_tokens) ==
  IF Len(endpoints) = 0
  THEN [req_id |-> counter] @@ Routed(m, "None", "ZeroDivisionError")
  ELSE LET chosen == sorted(endpoints)[(counter % Len(endpoints)) + 1] IN
       [req_id |-> counter + 1]
         @@ Routed(on_request_routed(m, chosen, request_id, num_prefill_tokens).st,
                   chosen, "none")

\* LeastLoadedRouter.route_request.estimate_work: lines 214-222
LeastLoadedWork(request_stats, url) ==
  IF url \notin DOMAIN request_stats THEN <<0, 1>>
  ELSE <<request_stats[url].in_prefill_requests + request_stats[url].in_decoding_requests, 1>>

\* LeastLoadedRouter.route_request: lines 224-233
LeastLoaded(m, endpoints, request_stats, request_id, num_prefill_tokens) ==
  LET work == [url \in Range(endpoints) |-> LeastLoadedWork(request_stats, url)]
      ret == LowestLoop(endpoints, work, <<1, 0>>, "None")
  IN Routed(on_request_routed(m, ret, request_id, num_prefill_tokens).st, ret, "none")

\* CustomRouter.route_request.estimate_work: lines 437-456
CustomWork(request_stats, url) ==
  IF url \notin DOMAIN request_stats THEN <<0, 1>>
  ELSE LET st == request_stats[url]
           ireq == st.ts_prefill_enqueue
           oreq == st.ts_decoding_enqueue
           avg_gen_lat == st.avg_decoding_length
           late == [r \in DOMAIN oreq |->
                      IF oreq[r] * avg_gen_lat[2] > avg_gen_lat[1]
                      THEN oreq[r] * avg_gen_lat[2] ELSE avg_gen_lat[1]]
       IN IF avg_gen_lat[1] < 0 THEN st.qps
          ELSE <<Cardinality(DOMAIN ireq) * avg_gen_lat[1] + SumOver(late, DOMAIN oreq),
                 avg_gen_lat[2]>>

\* CustomRouter.route_request: lines 458-467
Custom(m, endpoints, request_stats, request_id, num_prefill_tokens) ==
  LET work == [url \in Range(endpoints) |-> CustomWork(request_stats, url)]
      ret == LowestLoop(endpoints, work, <<1, 0>>, "None")
  IN Routed(on_request_routed(m, ret, request_id, num_prefill_tokens).st, ret, "none")

\* SessionRouter._qps_routing: lines 112-122
RECURSIVE qps_routing(_, _, _, _)
qps_routing(endpoints, request_stats, lowest_qps, ret) ==
  IF endpoints = <<>> THEN ret
  ELSE LET url == Head(endpoints) IN
       IF url \notin DOMAIN request_stats THEN url
       ELSE IF Less(request_stats[url].qps, lowest_qps)
            THEN qps_routing(Tail(endpoints), request_stats, request_stats[url].qps, url)
            ELSE qps_routing(Tail(endpoints), request_stats, lowest_qps, ret)

\* the nodes that left the endpoint list kept on the ring
update_hash_ring_NoRemove(ring, endpoints) == ring \cup Range(endpoints)

\* SessionRouter._update_hash_ring: lines 129-143
update_hash_ring(ring, endpoints) ==
  (ring \ (ring \ Range(endpoints))) \cup (Range(endpoints) \ ring)

\* HashRing.get_node: the first node the hash of the key meets, None on an empty ring
get_node(ring, session_id) ==
  LET met == SelectSeq(RingOrder[session_id], LAMBDA u : u \in ring) IN
    IF met = <<>> THEN "None" ELSE Head(met)

\* SessionRouter.route_request: lines 168-183
Session(m, ring, endpoints, request_stats, session_id, request_id, num_prefill_tokens) ==
  LET ring1 == update_hash_ring(ring, endpoints)
      url == IF session_id = "None"
             THEN qps_routing(endpoints, request_stats, <<1, 0>>, "None")
             ELSE get_node(ring1, session_id)
  IN [hash_ring |-> ring1]
       @@ Routed(on_request_routed(m, url, request_id, num_prefill_tokens).st, url, "none")

\* ------------------------------------------------------------ the whole system
VARIABLE frame  \* worker -> the locals of the method call it is inside of

VARIABLES
  phase,     \* request_id -> where the serving layer is with the request
  hint,      \* request_id -> the prefill token count given to route_request (0: none yet)
  routed,    \* request_id -> number of on_request_routed calls made by sweeps
  resolved,  \* request_id -> number of successful Future.set_result calls
  last,      \* the call made by the last step and how it ended
  sweep      \* what the sweep of the last step did (NoSweep when it ran none)

vars == <<monitorVars, queue, future, now, clock, policyVars, frame, phase, hint, routed,
          resolved, last, sweep>>

\* the workers of the serving layer that call into the router
Workers == {"w1", "w2"}

\* a worker that is not inside a method of the router or of the monitor
NoFrame ==
  [pc |-> "idle", idx |-> 0, request_id |-> "-", prefill_tokens |-> 0, target_url |-> "-",
   engine_url |-> "-",
   allocated_blocks |-> EmptyMap, pending_reserved_blocks |-> EmptyMap,
   queue_lengths |-> EmptyMap]

Call(op, url, id, path, exc) ==
  [op |-> op, url |-> url, id |-> id, path |-> path, exc |-> exc]

Count(seq, x) == Cardinality({i \in 1..Len(seq) : seq[i] = x})

Init ==
  /\ MonitorInit
  /\ queue = <<>>
  /\ future = [id \in Ids |-> "none"]
  /\ now = 0
  /\ clock = 0
  /\ policy = "hra"
  /\ req_id = 0
  /\ hash_ring = {}
  /\ recent = <<>>
  /\ instances = Started(policy)
  /\ frame = [w \in Workers |-> NoFrame]
  /\ phase = [id \in Ids |-> "new"]
  /\ hint = [id \in Ids |-> 0]
  /\ routed = [id \in Ids |-> 0]
  /\ resolved = [id \in Ids |-> 0]
  /\ last = Call("init", "-", "-", "-", "none")
  /\ sweep = NoSweep

HraUnchanged == UNCHANGED <<queue, future, routed, resolved, policyVars, frame>>

\* the effect of a sweep on the router and on the bookkeeping of the model
SetRouter(r) ==
  /\ queue' = r.queue
  /\ future' = r.future
  /\ sweep' = r.sweep
  /\ UNCHANGED <<policyVars, frame>>
  /\ routed' = [id \in Ids |-> routed[id] + Count(r.sweep.routed, id)]
  /\ resolved' = [id \in Ids |->
        resolved[id] + Cardinality({i \in 1..Len(r.sweep.admitted) :
                                      r.sweep.admitted[i].request_id = id})]

\* --- the serving layer: one request's calls in the order of its lifecycle
\* request ids are fresh names: they are handed out in the order a, b, c
Earlier(id) == {x \in Ids : \E i, j \in 1..Len(IdOrder) : IdOrder[i] = x /\ IdOrder[j] = id /\ i < j}

Arrive(id) ==
  /\ phase[id] = "new"
  /\ \A x \in Earlier(id) : phase[x] # "new"
  /\ LET r == on_request_arrival(Monitor, id, now) IN
       /\ SetMonitor(r.st)
       /\ last' = Call("on_request_arrival", "-", id, "-", r.exc)
  /\ phase' = [phase EXCEPT ![id] = "arrived"]
  /\ sweep' = NoSweep
  /\ HraUnchanged
  /\ UNCHANGED <<now, clock, hint>>

RouteRequest(id, endpoints, num_prefill_tokens) ==
  /\ policy = "hra"
  /\ phase[id] = "arrived"
  /\ \E order \in Orders(StatsUrls(Monitor)) :
       LET r == route_request(Monitor, queue, future, endpoints, id,
                              num_prefill_tokens, clock, now, order) IN
         /\ SetMonitor(r.st)
         /\ SetRouter(r)
         /\ last' = Call("route_request", "-", id, "-", r.exc)
         /\ phase' = [phase EXCEPT ![id] = IF r.exc = "none" THEN "waiting" ELSE "failed"]
  /\ hint' = [hint EXCEPT ![id] = num_prefill_tokens]
  /\ clock' = clock + 1
  /\ UNCHANGED now

Start(id) ==
  /\ phase[id] = "waiting"
  /\ future[id] \in Urls
  /\ LET r == on_request_start(Monitor, future[id], id, now) IN
       /\ SetMonitor(r.st)
       /\ last' = Call("on_request_start", future[id], id, "-", r.exc)
  /\ phase' = [phase EXCEPT ![id] = "started"]
  /\ sweep' = NoSweep
  /\ HraUnchanged
  /\ UNCHANGED <<now, clock, hint>>

Response(id) ==
  /\ phase[id] \in {"started", "streaming"}
  /\ Get(Get(request_decode_tokens, future[id], EmptyMap), id, 0) < MaxDecode
  /\ LET r == on_request_response(Monitor, future[id], id, now, phase[id] = "started") IN
       /\ SetMonitor(r.st)
       /\ last' = Call("on_request_response", future[id], id,
                       IF phase[id] = "started" THEN "first" ELSE "next", r.exc)
  /\ phase' = [phase EXCEPT ![id] = "streaming"]
  /\ sweep' = NoSweep
  /\ HraUnchanged
  /\ UNCHANGED <<now, clock, hint>>

\* The end of a request in the serving layer: the monitor's on_request_complete
\* and, after a completion on the normal path, the policy's on_request_complete.
Complete(id) ==
  /\ phase[id] \in {"started", "streaming"}
  /\ LET url == future[id]
         normal == CompleteIsNormal(Monitor, url, id)
         r == on_request_complete(Monitor, url, id, now)
     IN IF normal /\ r.exc = "none"
        THEN \E order \in Orders(StatsUrls(r.st)) :
               LET h == hra_on_request_complete(r.st, queue, future, url, now, order) IN
                 /\ SetMonitor(h.st)
                 /\ SetRouter(h)
                 /\ last' = Call("on_request_complete", url, id, "normal", h.exc)
        ELSE /\ SetMonitor(r.st)
             /\ sweep' = NoSweep
             /\ HraUnchanged
             /\ last' = Call("on_request_complete", url, id,
                             IF normal THEN "normal" ELSE "kill", r.exc)
  /\ phase' = [phase EXCEPT ![id] = "done"]
  /\ UNCHANGED <<now, clock, hint>>

Kill(id) ==
  /\ \/ phase[id] \in {"started", "streaming"}
     \/ phase[id] = "waiting" /\ future[id] \in Urls
  /\ LET r == on_request_kill(Monitor, future[id], id) IN
       /\ SetMonitor(r.st)
       /\ last' = Call("on_request_kill", future[id], id, "-", r.exc)
  /\ phase' = [phase EXCEPT ![id] = "done"]
  /\ sweep' = NoSweep
  /\ HraUnchanged
  /\ UNCHANGED <<now, clock, hint>>

\* The caller stops waiting for its admission (its task is cancelled while it
\* awaits the future): asyncio cancels the future; the router is not told.
Cancel(id) ==
  /\ phase[id] = "waiting"
  /\ future[id] = "pending"
  /\ future' = [future EXCEPT ![id] = "cancelled"]
  /\ phase' = [phase EXCEPT ![id] = "gone"]
  /\ last' = Call("cancel", "-", id, "-", "none")
  /\ sweep' = NoSweep
  /\ UNCHANGED <<monitorVars, queue, routed, resolved, now, clock, hint, policyVars, frame>>

Next ==
  \E id \in Ids :
    \/ Arrive(id)
    \/ \E req \in Requests : RouteRequest(id, req[1], req[2])
    \/ Start(id)
    \/ Response(id)
    \/ Complete(id)
    \/ Kill(id)
    \/ Cancel(id)

Spec == Init /\ [][Next]_vars

\* ------------------------------------------ any of the policies installed
\* the requests of the serving layer when any policy may be installed
PolicyIds == {"a", "b"}
PolicyPrefill == {160, 16000}

\* initialize_routing_logic(routing_logic) for any routing logic
InitPolicies ==
  /\ MonitorInit
  /\ queue = <<>>
  /\ future = [id \in Ids |-> "none"]
  /\ now = 0
  /\ clock = 0
  /\ policy \in Policies
  /\ req_id = 0
  /\ hash_ring = {}
  /\ recent = <<>>
  /\ instances = Started(policy)
  /\ frame = [w \in Workers |-> NoFrame]
  /\ phase = [id \in Ids |-> "new"]
  /\ hint = [id \in Ids |-> 0]
  /\ routed = [id \in Ids |-> 0]
  /\ resolved = [id \in Ids |-> 0]
  /\ last = Call("init", "-", "-", "-", "none")
  /\ sweep = NoSweep

\* route_request of the installed policy, one of those that answer at once
PolicyCall(m, request_stats, endpoints, session_id, request_id, num_prefill_tokens) ==
  CASE policy = "roundrobin" ->
         RoundRobin(m, req_id, endpoints, request_id, num_prefill_tokens)
    [] policy = "session" ->
         Session(m, hash_ring, endpoints, request_stats, session_id, request_id,
                 num_prefill_tokens)
    [] policy = "llq" ->
         LeastLoaded(m, endpoints, request_stats, request_id, num_prefill_tokens)
    [] policy = "custom" ->
         Custom(m, endpoints, request_stats, request_id, num_prefill_tokens)

\* The serving layer takes a snapshot of the monitor and asks the installed
\* policy for a url; what the policy returns is what the caller sees.
PolicyRoute(id, endpoints, session_id, num_prefill_tokens) ==
  /\ policy # "hra"
  /\ phase[id] = "arrived"
  /\ \E order \in Orders(StatsUrls(Monitor)) :
       LET snap == get_request_stats(Monitor, now, order) IN
         IF snap.exc # "none"
         THEN /\ SetMonitor(snap.st)
              /\ last' = Call("get_request_stats", "-", id, "-", snap.exc)
              /\ phase' = [phase EXCEPT ![id] = "failed"]
              /\ UNCHANGED <<future, req_id, hash_ring, recent>>
         ELSE LET r == PolicyCall(snap.st, snap.ret, endpoints, session_id, id,
                                  num_prefill_tokens) IN
              /\ SetMonitor(r.st)
              /\ last' = Call("route_request", r.ret, id,
                              IF Len(endpoints) = 0 THEN "empty" ELSE "listed", r.exc)
              /\ future' = [future EXCEPT ![id] = IF r.exc = "none" THEN r.ret ELSE @]
              /\ phase' = [phase EXCEPT ![id] =
                             IF r.exc = "none" /\ r.ret \in Urls THEN "waiting" ELSE "failed"]
              /\ req_id' = IF policy = "roundrobin" THEN r.req_id ELSE req_id
              /\ hash_ring' = IF policy = "session" THEN r.hash_ring ELSE hash_ring
              /\ recent' = Remember(recent, endpoints, session_id, r.ret)
  /\ hint' = [hint EXCEPT ![id] = num_prefill_tokens]
  /\ sweep' = NoSweep
  /\ UNCHANGED <<queue, routed, resolved, now, clock, policy, instances, frame>>

NextPolicies ==
  \E id \in PolicyIds :
    \/ Arrive(id)
    \/ \E endpoints \in EndpointLists, p \in PolicyPrefill :
         \/ RouteRequest(id, endpoints, p)
         \/ \E session_id \in IF policy = "session" THEN SessionIds ELSE {"None"} :
              PolicyRoute(id, endpoints, session_id, p)
    \/ Start(id)
    \/ Response(id)
    \/ Complete(id)
    \/ Kill(id)
    \/ Cancel(id)

SpecPolicies == InitPolicies /\ [][NextPolicies]_vars

\* --------------------------------- round robin on a stable set of endpoints
MaxCalls == 4

\* the lists of distinct urls, in any order
UrlLists ==
  {l \in UNION {[1..n -> Urls] : n \in 1..Cardinality(Urls)} :
     \A i, j \in DOMAIN l : i # j => l[i] # l[j]}

\* initialize_routing_logic(RoutingLogic.ROUND_ROBIN): a fresh RoundRobinRouter
InitRoundRobin == InitPolicies /\ policy = "roundrobin"

\* route_request of the round robin router, given the endpoints of the first
\* call again, listed in any order
RoundRobinCall(id, endpoints, num_prefill_tokens) ==
  /\ policy = "roundrobin"
  /\ clock < MaxCalls
  /\ recent # <<>> => Range(endpoints) = Range(recent[1].endpoints)
  /\ LET r == RoundRobin(Monitor, req_id, endpoints, id, num_prefill_tokens) IN
       /\ SetMonitor(r.st)
       /\ req_id' = r.req_id
       /\ recent' = Remember(recent, endpoints, "None", r.ret)
       /\ last' = Call("route_request", r.ret, id, "listed", r.exc)
  /\ clock' = clock + 1
  /\ sweep' = NoSweep
  /\ UNCHANGED <<queue, future, routed, resolved, now, hint, phase, policy, hash_ring,
               instances, frame>>

NextRoundRobin ==
  \E id \in PolicyIds, endpoints \in UrlLists : RoundRobinCall(id, endpoints, 160)

SpecRoundRobin == InitRoundRobin /\ [][NextRoundRobin]_vars

\* ------------------------------------ the session router on changing endpoints
\* the endpoint lists given to the session router: every set of urls in
\* lexicographic order, and the three urls in the opposite order
SessionLists == {sorted(l) : l \in UrlLists} \cup {<<"r3", "r2", "r1">>}

\* initialize_routing_logic(RoutingLogic.SESSION_BASED, session_key): a fresh ring
InitSession == InitPolicies /\ policy = "session"

\* route_request of the session router for a request that carries a session id
SessionCall(id, endpoints, session_id) ==
  /\ policy = "session"
  /\ clock < Remembered
  /\ session_id # "None"
  /\ LET request_stats == [url \in {} |-> 0]  \* not read when there is a session id
         r == Session(Monitor, hash_ring, endpoints, request_stats, session_id, id, 160)
     IN /\ SetMonitor(r.st)
        /\ hash_ring' = r.hash_ring
        /\ recent' = Remember(recent, endpoints, session_id, r.ret)
        /\ last' = Call("route_request", r.ret, id, "listed", r.exc)
  /\ clock' = clock + 1
  /\ sweep' = NoSweep
  /\ UNCHANGED <<queue, future, routed, resolved, now, hint, phase, policy, req_id,
               instances, frame>>

NextSession ==
  \E endpoints \in SessionLists, session_id \in SessionIds \ {"None"} :
     SessionCall("a", endpoints, session_id)

SpecSession == InitSession /\ [][NextSession]_vars

\* ------------------------------------------- the singletons of the process
\* the routing logics asked for: three of RoutingLogic and a value that is none
RegistryLogics == {"roundrobin", "session", "hra", "bogus"}
SessionKeys == {"None", "x-user-id"}
\* sliding_window_size arguments: none, the window of the process, and another one
Windows == {"None", ToString(sliding_window_size), ToString(sliding_window_size + 1)}

\* a process in which nothing has been constructed yet
InitRegistry ==
  /\ MonitorInit
  /\ queue = <<>>
  /\ future = [id \in Ids |-> "none"]
  /\ now = 0
  /\ clock = 0
  /\ policy = "None"
  /\ req_id = 0
  /\ hash_ring = {}
  /\ recent = <<>>
  /\ instances = EmptyMap
  /\ frame = [w \in Workers |-> NoFrame]
  /\ phase = [id \in Ids |-> "new"]
  /\ hint = [id \in Ids |-> 0]
  /\ routed = [id \in Ids |-> 0]
  /\ resolved = [id \in Ids |-> 0]
  /\ last = Call("init", "-", "-", "-", "none")
  /\ sweep = NoSweep

RegistryUnchanged ==
  UNCHANGED <<future, now, req_id, hash_ring, recent, frame, phase, hint, routed,
              resolved, sweep>>

\* the requests given to the router that get_routing_logic() returns: one that no
\* replica can ever hold and one that an idle replica admits
RegistryRequests == {<<<<"r1">>, 48000>>, <<<<"r1">>, 160>>}

\* initialize_routing_logic or reconfigure_routing_logic; policy is the routing
\* logic of the router that the latest of these calls returned. queue is the
\* _queue of the HRARouter in the registry: an HRARouter that is constructed
\* starts with an empty one, and the _queue of a discarded HRARouter goes with it
InstallRouter(op, routing_logic, session_key) ==
  /\ clock < MaxCalls
  /\ routing_logic # "session" => session_key = "None"
  /\ LET r == IF op = "initialize_routing_logic"
              THEN initialize_routing_logic(instances, routing_logic, session_key, clock + 1)
              ELSE reconfigure_routing_logic(instances, routing_logic, session_key, clock + 1)
     IN /\ instances' = r.instances
        /\ policy' = IF r.exc = "none" THEN r.ret
                     ELSE IF policy \in DOMAIN r.instances THEN policy ELSE "None"
        /\ queue' = IF /\ "hra" \in DOMAIN instances
                       /\ "hra" \in DOMAIN r.instances
                       /\ r.instances["hra"] = instances["hra"]
                    THEN queue ELSE <<>>
        /\ last' = Call(op, r.ret, routing_logic, session_key, r.exc)
  /\ clock' = clock + 1
  /\ UNCHANGED monitorVars
  /\ RegistryUnchanged

\* get_routing_logic()
GetRouter ==
  /\ LET r == get_routing_logic(instances) IN
       /\ instances' = r.instances
       /\ last' = Call("get_routing_logic", r.ret, "-", "-", r.exc)
  /\ UNCHANGED <<monitorVars, clock, policy, queue>>
  /\ RegistryUnchanged

\* initialize_request_stats_monitor(window), or get_request_stats_monitor() when
\* window is "None"; __init__ runs for the instance that is made
ConstructMonitor(window) ==
  /\ clock < MaxCalls
  /\ LET r == IF window = "None"
              THEN get_request_stats_monitor(instances, clock + 1)
              ELSE initialize_request_stats_monitor(instances, window, clock + 1)
     IN /\ instances' = r.instances
        /\ IF /\ "RequestStatsMonitor" \in DOMAIN r.instances
              /\ \/ "RequestStatsMonitor" \notin DOMAIN instances
                 \/ instances["RequestStatsMonitor"] # r.instances["RequestStatsMonitor"]
           THEN SetMonitor(RequestStatsMonitorInit)
           ELSE UNCHANGED monitorVars
        /\ last' = Call(IF window = "None" THEN "get_request_stats_monitor"
                        ELSE "initialize_request_stats_monitor",
                        r.ret, "-", window, r.exc)
  /\ clock' = clock + 1
  /\ UNCHANGED <<policy, queue>>
  /\ RegistryUnchanged

\* a request arrives and the serving layer tells the monitor
RegistryArrival(id) ==
  /\ phase[id] = "new"
  /\ LET got == get_request_stats_monitor(instances, 0)
         r == on_request_arrival(Monitor, id, now)
     IN /\ got.exc = "none"
        /\ instances' = got.instances
        /\ SetMonitor(r.st)
        /\ last' = Call("on_request_arrival", "-", id, "-", r.exc)
  /\ phase' = [phase EXCEPT ![id] = "arrived"]
  /\ UNCHANGED <<queue, future, now, clock, policy, req_id, hash_ring, recent, frame, hint,
                 routed, resolved, sweep>>

\* get_routing_logic().route_request(...) when the router returned is the
\* HRARouter; the future it returns stays with the caller
RegistryRoute(id, endpoints, num_prefill_tokens) ==
  /\ clock < MaxCalls
  /\ phase[id] = "arrived"
  /\ LET got == get_routing_logic(instances) IN
       /\ got.exc = "none"
       /\ got.ret = "hra"
       /\ instances' = got.instances
  /\ \E order \in Orders(StatsUrls(Monitor)) :
       LET r == route_request(Monitor, queue, future, endpoints, id,
                              num_prefill_tokens, clock, now, order) IN
         /\ SetMonitor(r.st)
         /\ queue' = r.queue
         /\ future' = r.future
         /\ sweep' = r.sweep
         /\ routed' = [x \in Ids |-> routed[x] + Count(r.sweep.routed, x)]
         /\ resolved' = [x \in Ids |->
               resolved[x] + Cardinality({i \in 1..Len(r.sweep.admitted) :
                                             r.sweep.admitted[i].request_id = x})]
         /\ last' = Call("route_request", "-", id, "-", r.exc)
         /\ phase' = [phase EXCEPT ![id] = IF r.exc = "none" THEN "waiting" ELSE "failed"]
  /\ hint' = [hint EXCEPT ![id] = num_prefill_tokens]
  /\ clock' = clock + 1
  /\ UNCHANGED <<now, policy, req_id, hash_ring, recent, frame>>

NextRegistry ==
  \/ \E op \in {"initialize_routing_logic", "reconfigure_routing_logic"},
        routing_logic \in RegistryLogics, session_key \in SessionKeys :
       InstallRouter(op, routing_logic, session_key)
  \/ GetRouter
  \/ \E window \in Windows : ConstructMonitor(window)
  \/ \E id \in PolicyIds : RegistryArrival(id)
  \/ \E id \in PolicyIds, req \in RegistryRequests : RegistryRoute(id, req[1], req[2])

SpecRegistry == InitRegistry /\ [][NextRegistry]_vars

\* ------------------------------------------- one MovingAverageMonitor alone
\* the timestamps fed to the window are 0..WindowTime, in at most WindowCalls calls
WindowTime == 4
WindowCalls == 5
WindowValues == {1, 2}

\* the window of r1, made with sliding_window_size as on_request_routed makes it;
\* now is the latest timestamp it was fed
InitWindow ==
  /\ request_arrival_time = EmptyMap
  /\ first_token_time = EmptyMap
  /\ in_prefill_requests_ids = EmptyMap
  /\ in_decoding_requests_ids = EmptyMap
  /\ finished_requests = EmptyMap
  /\ request_decode_tokens = EmptyMap
  /\ request_prefill_tokens = EmptyMap
  /\ swapped_requests = EmptyMap
  /\ first_query_time = <<>>
  /\ qps_monitors = [url \in {"r1"} |-> NewWindow]
  /\ ttft_monitors = EmptyMap
  /\ latency_monitors = EmptyMap
  /\ decoding_length_monitors = EmptyMap
  /\ queue = <<>>
  /\ future = [id \in Ids |-> "none"]
  /\ now = 0
  /\ clock = 0
  /\ policy = "None"
  /\ req_id = 0
  /\ hash_ring = {}
  /\ recent = <<>>
  /\ instances = EmptyMap
  /\ frame = [w \in Workers |-> NoFrame]
  /\ phase = [id \in Ids |-> "new"]
  /\ hint = [id \in Ids |-> 0]
  /\ routed = [id \in Ids |-> 0]
  /\ resolved = [id \in Ids |-> 0]
  /\ last = Call("init", "-", "-", "-", "none")
  /\ sweep = NoSweep

WindowUnchanged ==
  UNCHANGED <<request_arrival_time, first_token_time, in_prefill_requests_ids,
              in_decoding_requests_ids, finished_requests, request_decode_tokens,
              request_prefill_tokens, swapped_requests, first_query_time, ttft_monitors,
              latency_monitors, decoding_length_monitors, queue, future, policyVars,
              frame, phase, hint, routed, resolved, sweep>>

\* qps_monitors["r1"].update(timestamp, value); last keeps the two arguments
WindowUpdate(timestamp, value) ==
  /\ clock < WindowCalls
  /\ timestamp >= now
  /\ qps_monitors' = [qps_monitors EXCEPT !["r1"] = update(@, timestamp, value)]
  /\ now' = timestamp
  /\ clock' = clock + 1
  /\ last' = Call("update", "r1", value, timestamp, "none")
  /\ WindowUnchanged

\* qps_monitors["r1"].update_no_value(timestamp)
WindowUpdateNoValue(timestamp) ==
  /\ clock < WindowCalls
  /\ timestamp >= now
  /\ qps_monitors' = [qps_monitors EXCEPT !["r1"] = update_no_value(@, timestamp)]
  /\ now' = timestamp
  /\ clock' = clock + 1
  /\ last' = Call("update_no_value", "r1", "-", timestamp, "none")
  /\ WindowUnchanged

NextWindow ==
  \/ \E timestamp \in 0..WindowTime, value \in WindowValues : WindowUpdate(timestamp, value)
  \/ \E timestamp \in 0..WindowTime : WindowUpdateNoValue(timestamp)

SpecWindow == InitWindow /\ [][NextWindow]_vars

\* ------------------------------- sweeps of workers that run at the same time
\* HRARouter takes no lock: when two workers are inside its methods at the same
\* time, their statements interleave.  Each action below is one worker
\* executing the next group of statements of the method it is in.
WorkerIds == {"a", "b"}
WorkerRequests == {<<<<"r1">>, 16000>>, <<<<"r1">>, 12000>>}

Return(w) == frame' = [frame EXCEPT ![w] = NoFrame]

Step(op, url, id, w, exc) ==
  /\ last' = Call(op, url, id, w, exc)
  /\ sweep' = NoSweep

\* list.pop(idx), idx counted from 0
pop(q, idx) == SubSeq(q, 1, idx) \o SubSeq(q, idx + 2, Len(q))

\* HRARouter.route_request up to the call of _try_schedule: lines 303-315
WorkerRoute(w, id, endpoints, num_prefill_tokens) ==
  /\ frame[w].pc = "idle"
  /\ phase[id] = "arrived"
  /\ queue' = sort(Append(queue, [prefill_tokens |-> num_prefill_tokens, arrived_at |-> clock,
                                  endpoints |-> endpoints, request_id |-> id]))
  /\ future' = [future EXCEPT ![id] = "pending"]
  /\ frame' = [frame EXCEPT ![w] = [NoFrame EXCEPT !.pc = "snapshot"]]
  /\ phase' = [phase EXCEPT ![id] = "waiting"]
  /\ hint' = [hint EXCEPT ![id] = num_prefill_tokens]
  /\ clock' = clock + 1
  /\ Step("route_request", "-", id, w, "none")
  /\ UNCHANGED <<monitorVars, routed, resolved, now, policyVars>>

\* the end of a request handled by worker w: the monitor's on_request_complete,
\* then HRARouter.on_request_complete up to the call of _try_schedule
WorkerComplete(w, id) ==
  /\ frame[w].pc = "idle"
  /\ phase[id] \in {"started", "streaming"}
  /\ LET url == future[id]
         normal == CompleteIsNormal(Monitor, url, id)
         r == on_request_complete(Monitor, url, id, now)
     IN /\ SetMonitor(r.st)
        /\ frame' = [frame EXCEPT ![w] = IF normal /\ r.exc = "none"
                                         THEN [NoFrame EXCEPT !.pc = "snapshot"]
                                         ELSE NoFrame]
        /\ Step("on_request_complete", url, id, w, r.exc)
  /\ phase' = [phase EXCEPT ![id] = "done"]
  /\ UNCHANGED <<queue, future, routed, resolved, now, clock, hint, policyVars>>

\* _try_schedule, lines 335-364: the snapshot and the per-replica values
SweepSnapshot(w) ==
  /\ frame[w].pc = "snapshot"
  /\ IF queue = <<>>
     THEN /\ Return(w)
          /\ Step("_try_schedule", "-", "-", w, "none")
          /\ UNCHANGED monitorVars
     ELSE \E order \in Orders(StatsUrls(Monitor)) :
            LET snap == get_request_stats(Monitor, now, order)
                urls == replica_urls(queue)
                alloc == [url \in urls |-> estimate_allocated_blocks(snap.st, url)]
            IN /\ SetMonitor(snap.st)
               /\ IF snap.exc # "none"
                  THEN Return(w) /\ Step("_try_schedule", "-", "-", w, snap.exc)
                  ELSE IF \E url \in urls : alloc[url].exc # "none"
                  THEN Return(w) /\ Step("_try_schedule", "-", "-", w, "AssertionError")
                  ELSE /\ frame' = [frame EXCEPT ![w] =
                            [NoFrame EXCEPT
                               !.pc = "loop",
                               !.allocated_blocks = [url \in urls |-> alloc[url].val],
                               !.pending_reserved_blocks =
                                  [url \in urls |->
                                     estimate_pending_reserved_blocks(snap.st, url)],
                               !.queue_lengths =
                                  [url \in urls |->
                                     IF url \in DOMAIN snap.ret
                                     THEN snap.ret[url].in_prefill_requests
                                          + snap.ret[url].in_decoding_requests
                                     ELSE 0]]]
                       /\ Step("_try_schedule", "-", "-", w, "none")
  /\ UNCHANGED <<queue, future, routed, resolved, now, clock, hint, phase, policyVars>>

\* _try_schedule, lines 367-392: the entry at idx and its target
SweepPick(w) ==
  /\ frame[w].pc = "loop"
  /\ LET f == frame[w] IN
     IF ~(f.idx < Len(queue))
     THEN Return(w) /\ Step("_try_schedule", "-", "-", w, "none")
     ELSE LET qr == queue[f.idx + 1] IN
          IF \E i \in 1..Len(qr.endpoints) : qr.endpoints[i] \notin DOMAIN f.allocated_blocks
          THEN Return(w) /\ Step("_try_schedule", "-", qr.request_id, w, "KeyError")
          ELSE LET adm == admissible(qr, f.allocated_blocks, f.pending_reserved_blocks) IN
               IF adm = <<>>
               THEN Return(w) /\ Step("_try_schedule", "-", qr.request_id, w, "none")
               ELSE /\ frame' = [frame EXCEPT ![w] =
                         [f EXCEPT !.pc = "routed", !.request_id = qr.request_id,
                                   !.prefill_tokens = qr.prefill_tokens,
                                   !.target_url = target_url(adm, f.queue_lengths)]]
                    /\ Step("_try_schedule", "-", qr.request_id, w, "none")
  /\ UNCHANGED <<monitorVars, queue, future, routed, resolved, now, clock, hint, phase,
                 policyVars>>

\* _try_schedule, line 394
SweepRouted(w) ==
  /\ frame[w].pc = "routed"
  /\ LET f == frame[w]
         r == on_request_routed(Monitor, f.target_url, f.request_id, f.prefill_tokens)
     IN /\ SetMonitor(r.st)
        /\ routed' = [routed EXCEPT ![f.request_id] = @ + 1]
        /\ frame' = [frame EXCEPT ![w].pc = "set_result"]
        /\ Step("on_request_routed", f.target_url, f.request_id, w, r.exc)
  /\ UNCHANGED <<queue, future, resolved, now, clock, hint, phase, policyVars>>

\* _try_schedule, line 398
SweepSetResult(w) ==
  /\ frame[w].pc = "set_result"
  /\ LET f == frame[w] IN
     IF future[f.request_id] # "pending"
     THEN /\ Return(w)
          /\ Step("set_result", f.target_url, f.request_id, w, "InvalidStateError")
          /\ UNCHANGED <<future, resolved>>
     ELSE /\ future' = [future EXCEPT ![f.request_id] = f.target_url]
          /\ resolved' = [resolved EXCEPT ![f.request_id] = @ + 1]
          /\ frame' = [frame EXCEPT ![w].pc = "pop"]
          /\ Step("set_result", f.target_url, f.request_id, w, "none")
  /\ UNCHANGED <<monitorVars, queue, routed, now, clock, hint, phase, policyVars>>

\* _try_schedule, lines 399-402
SweepPop(w) ==
  /\ frame[w].pc = "pop"
  /\ LET f == frame[w] IN
     IF ~(f.idx < Len(queue))
     THEN /\ Return(w)
          /\ Step("pop", f.target_url, f.request_id, w, "IndexError")
          /\ UNCHANGED queue
     ELSE /\ queue' = pop(queue, f.idx)
          /\ frame' = [frame EXCEPT ![w] =
                [f EXCEPT !.pc = "loop",
                          !.pending_reserved_blocks =
                             ReservePending(@, f.target_url, req_blocks(f.prefill_tokens)),
                          !.queue_lengths[f.target_url] = @ + 1]]
          /\ Step("pop", f.target_url, queue[f.idx + 1].request_id, w, "none")
  /\ UNCHANGED <<monitorVars, future, routed, resolved, now, clock, hint, phase, policyVars>>

NextSweeps ==
  \/ \E id \in WorkerIds :
       \/ Arrive(id)
       \/ Start(id)
       \/ Response(id)
       \/ \E w \in Workers :
            \/ \E req \in WorkerRequests : WorkerRoute(w, id, req[1], req[2])
            \/ WorkerComplete(w, id)
  \/ \E w \in Workers :
       \/ SweepSnapshot(w)
       \/ SweepPick(w)
       \/ SweepRouted(w)
       \/ SweepSetResult(w)
       \/ SweepPop(w)

SpecSweeps == Init /\ [][NextSweeps]_vars

\* -------------------------------- hooks of workers that run at the same time
\* RequestStatsMonitor takes no lock either.  A worker inside on_request_response
\* or on_request_complete can be interrupted between two statements that call a
\* function; an augmented assignment is taken as one step.
InHook(w, pc, engine_url, request_id) ==
  [NoFrame EXCEPT !.pc = pc, !.engine_url = engine_url, !.request_id = request_id]

HookUnchanged == UNCHANGED <<queue, future, routed, resolved, now, clock, hint, policyVars>>

\* on_request_response, lines 216-228
RespBegin(w, id) ==
  /\ frame[w].pc = "idle"
  /\ phase[id] \in {"started", "streaming"}
  /\ Get(Get(request_decode_tokens, future[id], EmptyMap), id, 0) < MaxDecode
  /\ LET url == future[id]
         m1 == CountToken(Monitor, url, id)
     IN IF phase[id] # "started"
        THEN /\ SetMonitor(m1)
             /\ Return(w)
             /\ Step("on_request_response", url, id, w, "none")
        ELSE IF id \notin DOMAIN m1.request_arrival_time
        THEN LET r == on_request_kill(m1, url, id) IN
             /\ SetMonitor(r.st)
             /\ Return(w)
             /\ Step("on_request_response", url, id, w, r.exc)
        ELSE /\ SetMonitor(m1)
             /\ frame' = [frame EXCEPT ![w] = InHook(w, "discard", url, id)]
             /\ Step("on_request_response", url, id, w, "none")
  /\ phase' = [phase EXCEPT ![id] = "streaming"]
  /\ HookUnchanged

\* on_request_response, line 230
RespDiscard(w) ==
  /\ frame[w].pc = "discard"
  /\ LET f == frame[w] IN
     IF f.engine_url \notin DOMAIN in_prefill_requests_ids
     THEN /\ Return(w)
          /\ Step("discard", f.engine_url, f.request_id, w, "KeyError")
          /\ UNCHANGED monitorVars
     ELSE /\ SetMonitor([Monitor EXCEPT
                           !.in_prefill_requests_ids[f.engine_url] = @ \ {f.request_id}])
          /\ frame' = [frame EXCEPT ![w].pc = "add"]
          /\ Step("discard", f.engine_url, f.request_id, w, "none")
  /\ HookUnchanged
  /\ UNCHANGED phase

\* on_request_response, lines 232-234
RespAdd(w) ==
  /\ frame[w].pc = "add"
  /\ LET f == frame[w] IN
     /\ SetMonitor([Monitor EXCEPT
                      !.in_decoding_requests_ids =
                         Put(@, f.engine_url, Get(@, f.engine_url, {}) \cup {f.request_id})])
     /\ frame' = [frame EXCEPT ![w].pc = "record"]
     /\ Step("add", f.engine_url, f.request_id, w, "none")
  /\ HookUnchanged
  /\ UNCHANGED phase

\* on_request_response, lines 237-243
RespRecord(w) ==
  /\ frame[w].pc = "record"
  /\ LET f == frame[w]
         m1 == [Monitor EXCEPT
                  !.first_token_time = Put(@, <<f.engine_url, f.request_id>>, now)]
     IN IF f.request_id \notin DOMAIN request_arrival_time
        THEN /\ SetMonitor(m1)
             /\ Step("record", f.engine_url, f.request_id, w, "KeyError")
        ELSE /\ SetMonitor([m1 EXCEPT
                   !.ttft_monitors =
                      Put(@, f.engine_url,
                          update(Get(@, f.engine_url, NewWindow), now,
                                 now - request_arrival_time[f.request_id]))])
             /\ Step("record", f.engine_url, f.request_id, w, "none")
  /\ Return(w)
  /\ HookUnchanged
  /\ UNCHANGED phase

\* on_request_complete, lines 254-263
CompBegin(w, id) ==
  /\ frame[w].pc = "idle"
  /\ phase[id] \in {"started", "streaming"}
  /\ LET url == future[id] IN
     IF ~CompleteIsNormal(Monitor, url, id)
     THEN LET r == on_request_kill(Monitor, url, id) IN
          /\ SetMonitor(r.st)
          /\ Return(w)
          /\ Step("on_request_complete", url, id, w, r.exc)
     ELSE IF url \notin DOMAIN in_decoding_requests_ids
     THEN /\ Return(w)
          /\ Step("on_request_complete", url, id, w, "KeyError")
          /\ UNCHANGED monitorVars
     ELSE /\ SetMonitor([Monitor EXCEPT !.in_decoding_requests_ids[url] = @ \ {id}])
          /\ frame' = [frame EXCEPT ![w] = InHook(w, "finished", url, id)]
          /\ Step("on_request_complete", url, id, w, "none")
  /\ phase' = [phase EXCEPT ![id] = "done"]
  /\ HookUnchanged

\* on_request_complete, lines 265-267
CompCount(w) ==
  /\ frame[w].pc = "finished"
  /\ LET f == frame[w] IN
     /\ SetMonitor([Monitor EXCEPT
                      !.finished_requests = Put(@, f.engine_url, Get(@, f.engine_url, 0) + 1)])
     /\ frame' = [frame EXCEPT ![w].pc = "cleanup"]
     /\ Step("finished", f.engine_url, f.request_id, w, "none")
  /\ HookUnchanged
  /\ UNCHANGED phase

\* on_request_complete, lines 269-295
CompCleanup(w) ==
  /\ frame[w].pc = "cleanup"
  /\ LET f == frame[w]
         url == f.engine_url
         id == f.request_id
     IN IF ~CompleteIsNormal(Monitor, url, id)
        THEN /\ Step("cleanup", url, id, w, "KeyError")
             /\ UNCHANGED monitorVars
        ELSE /\ SetMonitor([Monitor EXCEPT
                  !.latency_monitors =
                     Put(@, url, update(Get(@, url, NewWindow), now,
                                        now - request_arrival_time[id])),
                  !.decoding_length_monitors =
                     Put(@, url, update(Get(@, url, NewWindow), now,
                                        now - first_token_time[<<url, id>>])),
                  !.request_decode_tokens = DelToken(@, url, id),
                  !.request_prefill_tokens = DelToken(@, url, id),
                  !.request_arrival_time = Del(@, id),
                  !.first_token_time = Del(@, <<url, id>>)])
             /\ Step("cleanup", url, id, w, "none")
  /\ Return(w)
  /\ HookUnchanged
  /\ UNCHANGED phase

\* get_request_stats called by a worker
WorkerStats(w) ==
  /\ frame[w].pc = "idle"
  /\ \E order \in Orders(StatsUrls(Monitor)) :
       LET r == get_request_stats(Monitor, now, order) IN
         /\ SetMonitor(r.st)
         /\ Step("get_request_stats", "-", "-", w, r.exc)
  /\ HookUnchanged
  /\ UNCHANGED <<phase, frame>>

NextHooks ==
  \/ \E id \in WorkerIds :
       \/ Arrive(id)
       \/ RouteRequest(id, <<"r1">>, 160)
       \/ Start(id)
       \/ \E w \in Workers : RespBegin(w, id) \/ CompBegin(w, id)
  \/ \E w \in Workers :
       \/ RespDiscard(w)
       \/ RespAdd(w)
       \/ RespRecord(w)
       \/ CompCount(w)
       \/ CompCleanup(w)
       \/ WorkerStats(w)

SpecHooks == Init /\ [][NextHooks]_vars

\* ------------------------------------------- the hooks called in any order
WindowsOf(m) ==
  {m.qps_monitors[u] : u \in DOMAIN m.qps_monitors}
    \cup {m.ttft_monitors[u] : u \in DOMAIN m.ttft_monitors}
    \cup {m.latency_monitors[u] : u \in DOMAIN m.latency_monitors}
    \cup {m.decoding_length_monitors[u] : u \in DOMAIN m.decoding_length_monitors}

\* the bounds of the model on the counters and windows of the monitor
Bounded(m) ==
  /\ \A w \in WindowsOf(m) : Len(w.timestamps) <= MaxWindow
  /\ \A u \in DOMAIN m.finished_requests : m.finished_requests[u] <= MaxCount
  /\ \A u \in DOMAIN m.swapped_requests : m.swapped_requests[u] <= MaxCount
  /\ \A u \in DOMAIN m.request_decode_tokens :
        \A id \in DOMAIN m.request_decode_tokens[u] :
           m.request_decode_tokens[u][id] <= MaxDecode

\* a hook of the monitor called directly; the router is not involved
Hook(r, op, url, id, path) ==
  /\ Bounded(r.st)
  /\ SetMonitor(r.st)
  /\ last' = Call(op, url, id, path, r.exc)
  /\ sweep' = NoSweep
  /\ HraUnchanged
  /\ UNCHANGED <<now, clock, hint, phase>>

OnArrival(id) ==
  Hook(on_request_arrival(Monitor, id, now), "on_request_arrival", "-", id, "-")

OnStart(url, id) ==
  Hook(on_request_start(Monitor, url, id, now), "on_request_start", url, id, "-")

OnRouted(url, id, prefill_tokens) ==
  Hook(on_request_routed(Monitor, url, id, prefill_tokens), "on_request_routed", url, id, "-")

OnResponse(url, id, is_first_token) ==
  Hook(on_request_response(Monitor, url, id, now, is_first_token),
       "on_request_response", url, id, IF is_first_token THEN "first" ELSE "next")

OnComplete(url, id) ==
  Hook(on_request_complete(Monitor, url, id, now), "on_request_complete", url, id,
       IF CompleteIsNormal(Monitor, url, id) THEN "normal" ELSE "kill")

OnSwapped(url, id) ==
  Hook(on_request_swapped(Monitor, url, id, now), "on_request_swapped", url, id, "-")

OnKill(url, id) ==
  Hook(on_request_kill(Monitor, url, id), "on_request_kill", url, id, "-")

GetStats ==
  \E order \in Orders(StatsUrls(Monitor)) :
     Hook(get_request_stats(Monitor, now, order), "get_request_stats", "-", "-", "-")

Tick ==
  /\ now < MaxTime
  /\ now' = now + 1
  /\ last' = Call("tick", "-", "-", "-", "none")
  /\ sweep' = NoSweep
  /\ HraUnchanged
  /\ UNCHANGED <<monitorVars, clock, hint, phase>>

\* the hooks that take a request, called for any (engine_url, request_id) of calls
RequestHooks(calls) ==
  \E c \in calls :
    \/ OnArrival(c[2])
    \/ \E p \in HookPrefill : OnRouted(c[1], c[2], p)
    \/ \E first \in BOOLEAN : OnResponse(c[1], c[2], first)
    \/ OnComplete(c[1], c[2])
    \/ OnKill(c[1], c[2])

\* two requests on one engine, with the clock advancing
NextMonitor ==
  \/ RequestHooks(HookCalls)
  \/ OnStart("r1", "a")
  \/ OnSwapped("r1", "a")
  \/ GetStats
  \/ Tick

SpecMonitor == Init /\ [][NextMonitor]_vars

\* one request id used on two engines
NextUrls ==
  \/ RequestHooks(UrlCalls)
  \/ OnStart("r1", "a")
  \/ OnSwapped("r1", "a")
  \/ GetStats

SpecUrls == Init /\ [][NextUrls]_vars

\* ------------------------------------------------------------------- claims
\* ceil(prefill_tokens * (1 + DECODE_TO_PREFILL_RATIO) / BLOCK_SIZE)
NeedBlocks(prefill_tokens) ==
  (prefill_tokens * (100 + DECODE_TO_PREFILL_RATIO) + 100 * BLOCK_SIZE - 1)
     \div (100 * BLOCK_SIZE)

\* floor(TOTAL_BLOCKS * SAFETY_FRACTION)
MinFree == (TOTAL_NUMBER_OF_BLOCKS * SAFETY_FRACTION) \div 100

\* the blocks the first k admissions of the last sweep reserved on url
ReservedBySweep(url, k) ==
  SeqSum([j \in 1..k |-> IF sweep.admitted[j].url = url
                         THEN NeedBlocks(sweep.admitted[j].prefill_tokens) ELSE 0])

\* what the last sweep projected for url after its first k admissions
Projected(url, k) ==
  sweep.allocated_blocks[url] + sweep.pending_reserved_blocks[url] + ReservedBySweep(url, k)

QueueIds(q) == {q[i].request_id : i \in 1..Len(q)}

KeyLeq(x, y) ==
  \/ x.prefill_tokens < y.prefill_tokens
  \/ x.prefill_tokens = y.prefill_tokens /\ x.arrived_at <= y.arrived_at

Sorted(q) == \A i, j \in 1..Len(q) : i < j => KeyLeq(q[i], q[j])

\* C1: every entry a sweep admits leaves its target at least
\* floor(TOTAL_BLOCKS * SAFETY_FRACTION) free blocks, counting the replica's
\* allocated and pending blocks at the start of the sweep, the blocks of the
\* entries the same sweep admitted to that target before, and the entry's own.
C1_HeadRoomKept ==
  \A k \in 1..Len(sweep.admitted) :
     TOTAL_NUMBER_OF_BLOCKS - Projected(sweep.admitted[k].url, k) >= MinFree

\* a sweep admitted a second entry to a target it had already admitted one to
C1_Witness ==
  \E j, k \in 1..Len(sweep.admitted) :
     /\ j < k
     /\ sweep.admitted[j].url = sweep.admitted[k].url

\* C2: the entries a sweep admits are a prefix of the sorted queue it started
\* with, the rest stays queued in order, and the entry it stopped at has no
\* url with enough head-room.
C2_AdmittedPrefix ==
  sweep.ran =>
    LET n == Len(sweep.admitted) IN
      /\ n <= Len(sweep.before)
      /\ \A i \in 1..n : sweep.admitted[i].request_id = sweep.before[i].request_id
      /\ queue = SubSeq(sweep.before, n + 1, Len(sweep.before))
      /\ (last.exc = "none" /\ n < Len(sweep.before)) =>
            LET e == sweep.before[n + 1] IN
              \A i \in 1..Len(e.endpoints) :
                 TOTAL_NUMBER_OF_BLOCKS
                   - (Projected(e.endpoints[i], n) + NeedBlocks(e.prefill_tokens)) < MinFree

\* a sweep stopped at an entry although the entry behind it had room
C2_Witness ==
  /\ sweep.ran
  /\ last.exc = "none"
  /\ Len(queue) >= 2
  /\ \E i \in 1..Len(queue[2].endpoints) :
        TOTAL_NUMBER_OF_BLOCKS
          - (Projected(queue[2].endpoints[i], Len(sweep.admitted))
               + NeedBlocks(queue[2].prefill_tokens)) >= MinFree

\* the prefill tokens on url of the requests the last sweep did not admit
PrefillTokensBefore(url) ==
  LET d == Get(request_prefill_tokens, url, EmptyMap)
      S == DOMAIN d \ {sweep.admitted[k].request_id : k \in 1..Len(sweep.admitted)}
  IN SumOver(d, S)

C4_ResolvedIsTerminal ==
  [][\A id \in Ids :
       /\ future[id] \in Urls => future'[id] = future[id]
       /\ resolved'[id] <= 1
       /\ future'[id] \in Urls =>
            /\ resolved'[id] = 1
            /\ routed'[id] = 1
            /\ id \notin QueueIds(queue')]_vars

\* a sweep ran after an entry had been resolved by an earlier sweep
C4_Witness ==
  /\ sweep.ran
  /\ sweep.admitted # <<>>
  /\ \E id \in Ids :
       /\ future[id] \in Urls
       /\ \A k \in 1..Len(sweep.admitted) : sweep.admitted[k].request_id # id

\* C5: an entry that needs more blocks than a replica can ever offer is never
\* resolved: it stays in the queue with its future pending.
C5_FatNeverAdmitted ==
  \A id \in Ids :
     NeedBlocks(hint[id]) > TOTAL_NUMBER_OF_BLOCKS - MinFree =>
        /\ future[id] \notin Urls
        /\ future[id] = "pending" => id \in QueueIds(queue)

\* such an entry is still queued after a sweep later than the one that enqueued it
C5_Witness ==
  \E id \in Ids :
     /\ NeedBlocks(hint[id]) > TOTAL_NUMBER_OF_BLOCKS - MinFree
     /\ future[id] = "pending"
     /\ id \in QueueIds(queue)
     /\ sweep.ran
     /\ last.id # id
     /\ last.exc = "none"

\* C6: the queue is in (prefill_tokens, arrived_at) order after every
\* route_request and every sweep, and a sweep admits in that order.
C6_QueueSorted ==
  /\ Sorted(queue)
  /\ Sorted(sweep.before)
  /\ Sorted(sweep.admitted)

\* route_request put a new entry in front of an older one, and behind an
\* older one with the same prefill
C6_Witness ==
  /\ last.op = "route_request"
  /\ \E i, j, k \in 1..Len(queue) :
       /\ i < j /\ j < k
       /\ queue[i].arrived_at > queue[j].arrived_at
       /\ queue[j].prefill_tokens = queue[k].prefill_tokens

\* id is in the set that the dict d keeps for url
InSet(d, url, id) == url \in DOMAIN d /\ id \in d[url]

\* the dict of dicts d has a record of id under url
HasToken(d, url, id) == url \in DOMAIN d /\ id \in DOMAIN d[url]

\* no structure of the monitor that is keyed by a request holds id for url
Absent(url, id) ==
  /\ ~InSet(in_prefill_requests_ids, url, id)
  /\ ~InSet(in_decoding_requests_ids, url, id)
  /\ id \notin DOMAIN request_arrival_time
  /\ <<url, id>> \notin DOMAIN first_token_time
  /\ ~HasToken(request_decode_tokens, url, id)
  /\ ~HasToken(request_prefill_tokens, url, id)

\* C7: whatever hooks are called, in whatever order, the in-prefill set and
\* the in-decoding set of a url have no request id in common.
C7_PrefillDecodingDisjoint ==
  \A c \in HookCalls :
     ~(InSet(in_prefill_requests_ids, c[1], c[2])
         /\ InSet(in_decoding_requests_ids, c[1], c[2]))

\* C8: a request id is in the in-flight sets of at most one url.
C8_InFlightOnOneUrl ==
  \A c1, c2 \in UrlCalls :
     (/\ c1[2] = c2[2]
      /\ InSet(in_prefill_requests_ids, c1[1], c1[2])
            \/ InSet(in_decoding_requests_ids, c1[1], c1[2])
      /\ InSet(in_prefill_requests_ids, c2[1], c2[2])
            \/ InSet(in_decoding_requests_ids, c2[1], c2[2]))
     => c1[1] = c2[1]

\* C9: with distinct ids on one url, right after on_request_complete(url, id)
\* has returned, on its normal path or through on_request_kill, the monitor
\* holds id in neither in-flight set of url and has no arrival time, first
\* token time, decode token count or prefill token count for it.
C9_CompleteLeavesNothing ==
  (last.op = "on_request_complete" /\ last.exc = "none")
     => Absent(last.url, last.id)

\* C10: right after on_request_kill(url, id), whatever records existed
\* before the call, the monitor holds id in neither in-flight set of url and
\* has no arrival time, first token time, decode token count or prefill
\* token count for it.
C10_KillLeavesNothing ==
  last.op = "on_request_kill" => Absent(last.url, last.id)

\* the hooks of the monitor that change its state
MutationHooks ==
  {"on_request_arrival", "on_request_start", "on_request_routed", "on_request_response",
   "on_request_complete", "on_request_swapped", "on_request_kill"}

\* C11: whatever hooks were called before and whatever url and id it is given,
\* a mutation hook of the monitor returns normally: no exception leaves it.
C11_HooksNeverRaise ==
  last.op \in MutationHooks => last.exc = "none"

\* C12: a first-token on_request_response(url, id) for an id that has no
\* arrival record raises nothing and leaves no state of id on url: id is in
\* neither in-flight set of url and has no first token time, decode token
\* count or prefill token count there.  (The call deletes no arrival record on
\* the path that has one, so the record is missing after the call exactly
\* when it was missing before.)
C12_GhostResponseLeavesNothing ==
  (/\ last.op = "on_request_response"
   /\ last.path = "first"
   /\ last.id \notin DOMAIN request_arrival_time)
  => last.exc = "none" /\ Absent(last.url, last.id)

DecodeInDecoding ==
  \A u \in DOMAIN request_decode_tokens :
     \A id \in DOMAIN request_decode_tokens[u] : InSet(in_decoding_requests_ids, u, id)

AllocatedSum(url) ==
  LET ids == Get(in_decoding_requests_ids, url, {})
      blocks == [id \in ids |->
                   CeilDiv(Get(Get(request_prefill_tokens, url, EmptyMap), id, 0)
                             + Get(Get(request_decode_tokens, url, EmptyMap), id, 0),
                           BLOCK_SIZE)]
  IN SumOver(blocks, ids)

RecordedAt(url, id) ==
  /\ InSet(in_prefill_requests_ids, url, id)
  /\ HasToken(request_prefill_tokens, url, id)
  /\ request_prefill_tokens[url][id] = hint[id]

C15_RoutedBeforeSurfaced ==
  /\ \A id \in Ids :
       (phase[id] = "waiting" /\ future[id] \in Urls) => RecordedAt(future[id], id)
  /\ (policy # "hra" /\ last.op = "route_request" /\ last.exc = "none")
       => RecordedAt(last.url, last.id)

\* a policy that answers at once returns, for a second request, the url where
\* the first one is decoding
C15_Witness ==
  /\ policy # "hra"
  /\ last.op = "route_request" /\ last.exc = "none" /\ last.url \in Urls
  /\ phase[last.id] = "waiting"
  /\ \E id \in Ids \ {last.id} : phase[id] = "streaming" /\ future[id] = last.url

\* C18: route_request of a policy that answers at once (round robin, least
\* loaded, session, custom), called with an empty endpoint list, returns no url
\* to its caller and does not raise.
C18_EmptyListReturnsNoUrl ==
  (policy # "hra" /\ last.op = "route_request" /\ last.path = "empty")
    => (last.exc = "none" /\ last.url = "None")

\* the endpoint list given to the route_request call of the last step
CallEndpoints ==
  LET i == CHOOSE i \in 1..Len(sweep.before) : sweep.before[i].request_id = last.id
  IN sweep.before[i].endpoints

\* url has room for the entry qr on top of everything the last sweep projected
HeadRoomLeft(qr, url) ==
  /\ url \in DOMAIN sweep.allocated_blocks
  /\ TOTAL_NUMBER_OF_BLOCKS
        - (Projected(url, Len(sweep.admitted)) + NeedBlocks(qr.prefill_tokens)) >= MinFree

\* C19: an entry enqueued with an empty endpoint list is retried by later
\* sweeps with the endpoints that exist then: a sweep started by a route_request
\* that was given endpoints does not leave such an entry at the head of the
\* queue when one of those endpoints has enough head-room for it.
C19_EmptyListEntryRetried ==
  (last.op = "route_request" /\ last.exc = "none" /\ sweep.ran
     /\ queue # <<>> /\ queue[1].endpoints = <<>>)
    => \A url \in Range(CallEndpoints) : ~HeadRoomLeft(queue[1], url)

\* C20: a sweep that finds an entry with a cancelled future admissible resolves
\* it, removes it and goes on: no sweep ends with InvalidStateError, and no
\* sweep leaves at the head of the queue a cancelled entry that one of its
\* endpoints has enough head-room for.
C20_CancelledEntryRemoved ==
  sweep.ran =>
    /\ last.exc # "InvalidStateError"
    /\ (queue # <<>> /\ future[queue[1].request_id] = "cancelled")
         => \A url \in Range(queue[1].endpoints) : ~HeadRoomLeft(queue[1], url)

\* the blocks the monitor counts on url: allocated and reserved
BlocksOn(url) ==
  estimate_allocated_blocks(Monitor, url).val + estimate_pending_reserved_blocks(Monitor, url)

\* C16: sweeps started by different workers do not overlap, so no entry is
\* admitted twice (on_request_routed is called once per entry and set_result
\* never finds its future already resolved), a sweep removes from the queue the
\* entry it resolved, and after every admission the target keeps its
\* head-room with all earlier admissions counted.
C16_SweepsExclusive ==
  /\ \A id \in Ids : routed[id] <= 1
  /\ last.exc # "InvalidStateError"
  /\ last.op = "pop" => last.id = frame[last.path].request_id
  /\ last.op = "on_request_routed"
       => TOTAL_NUMBER_OF_BLOCKS - BlocksOn(last.url) >= MinFree

\* the url a request was given and is being served on
ServedOn(id) ==
  IF phase[id] \in {"started", "streaming"} \/ (phase[id] = "waiting" /\ future[id] \in Urls)
  THEN future[id] ELSE "None"

TokensOf(d, url, id) == Get(Get(d, url, EmptyMap), id, 0)

\* C17: the hooks and the snapshot builder are atomic with respect to each
\* other when several workers call them: each on_request_response adds exactly 1
\* to the decode token count of its request, each on_request_complete that counts
\* adds exactly 1 to the finished count of its url, and get_request_stats
\* returns and sees every request that is being served in exactly one of the
\* in-prefill and in-decoding sets of its url, with its arrival time on record.
C17_HooksAtomic ==
  [][/\ last'.op = "on_request_response" /\ last'.exc = "none"
          /\ last'.id \in DOMAIN request_arrival_time'
        => TokensOf(request_decode_tokens', last'.url, last'.id)
             = TokensOf(request_decode_tokens, last'.url, last'.id) + 1
     /\ last'.op = "finished"
        => Get(finished_requests', last'.url, 0) = Get(finished_requests, last'.url, 0) + 1
     /\ last'.op = "get_request_stats"
        => /\ last'.exc = "none"
           /\ \A id \in Ids :
                ServedOn(id) # "None"
                  => /\ id \in DOMAIN request_arrival_time'
                     /\ InSet(in_prefill_requests_ids', ServedOn(id), id)
                          # InSet(in_decoding_requests_ids', ServedOn(id), id)]_vars

\* the place of a url in the lexicographic order of the urls
LexIndex(u) == CHOOSE i \in 1..Len(UrlOrder) : UrlOrder[i] = u

\* u is the url of S with exactly n urls of S before it in lexicographic order
IsNth(u, S, n) == u \in S /\ Cardinality({v \in S : LexIndex(v) < LexIndex(u)}) = n

\* C21: on a stable set of N >= 1 endpoints the k-th call (k = 0, 1, ...) of a
\* fresh round robin router returns the url at index k mod N of the endpoints
\* in lexicographic order, in whatever order the endpoints are listed.
C21_RoundRobinCycles ==
  (policy = "roundrobin" /\ last.op = "route_request")
    => LET S == Range(recent[Len(recent)].endpoints) IN
         /\ last.exc = "none"
         /\ IsNth(last.url, S, (clock - 1) % Cardinality(S))

\* the fourth call on three endpoints listed out of order: back to the first url
C21_Witness ==
  /\ policy = "roundrobin" /\ last.op = "route_request" /\ clock = 4
  /\ recent[Len(recent)].endpoints = <<"r2", "r1", "r3">>
  /\ last.url = "r1"

\* the requests the monitor has in prefill or in decoding on url
Load(url) ==
  Cardinality(Get(in_prefill_requests_ids, url, {}))
    + Cardinality(Get(in_decoding_requests_ids, url, {}))

\* url is the first of the listed endpoints with the least load
FirstLeastLoaded(url, endpoints) ==
  \E i \in 1..Len(endpoints) :
     /\ endpoints[i] = url
     /\ \A j \in 1..Len(endpoints) : Load(url) <= Load(endpoints[j])
     /\ \A j \in 1..(i - 1) : Load(endpoints[j]) > Load(url)

\* C22: for a non-empty endpoint list the least loaded policy returns the
\* first-listed url among those with the least in_prefill + in_decoding in the
\* snapshot taken for the call; a url without snapshot entry counts as 0.
C22_LeastLoadedFirstMinimum ==
  [][(policy = "llq" /\ last'.op = "route_request" /\ last'.path = "listed")
       => /\ last'.exc = "none"
          /\ FirstLeastLoaded(last'.url, recent'[Len(recent')].endpoints)]_vars

\* with a request decoding on r1, the list r1, r2 is answered with r2
C22_Witness ==
  /\ policy = "llq" /\ last.op = "route_request" /\ last.url = "r2"
  /\ recent[Len(recent)].endpoints = <<"r1", "r2">>
  /\ Cardinality(Get(in_decoding_requests_ids, "r1", {})) = 1

\* C23: the session router is sticky.  Calls with the same session id and the
\* same set of endpoints return the same url, also when other endpoint sets
\* were given in between (the url comes back when it is restored); the url
\* returned is one of the endpoints of the call (a removed url is left for
\* another one); and after every call the nodes of the hash ring are the urls
\* of that call's endpoint list.
C23_SessionSticky ==
  policy = "session" =>
    /\ recent # <<>> => hash_ring = Range(recent[Len(recent)].endpoints)
    /\ \A i \in DOMAIN recent :
         recent[i].session_id # "None" => recent[i].url \in Range(recent[i].endpoints)
    /\ \A i, j \in DOMAIN recent :
         (/\ recent[i].session_id = recent[j].session_id
          /\ recent[i].session_id # "None"
          /\ Range(recent[i].endpoints) = Range(recent[j].endpoints))
           => recent[i].url = recent[j].url

\* a session is routed to r1, to r2 once r1 has left the list, and to r1 again
\* once r1 is back
C23_Witness ==
  /\ policy = "session" /\ Len(recent) = 3
  /\ \A i \in 1..3 : recent[i].session_id = "s1"
  /\ recent[1].endpoints = <<"r3", "r2", "r1">> /\ recent[1].url = "r1"
  /\ recent[2].endpoints = <<"r2", "r3">> /\ recent[2].url = "r2"
  /\ recent[3].endpoints = <<"r1", "r2", "r3">> /\ recent[3].url = "r1"

\* the routers that are installed in the process
InstalledRouters == DOMAIN instances \ {"RequestStatsMonitor"}

\* C24: whatever initialize and reconfigure calls were made, at most one router
\* is installed, and get() returns the router of the latest of these calls, or
\* raises when there is none.
C24_OneRouterLatestWins ==
  /\ Cardinality(InstalledRouters) <= 1
  /\ last.op = "get_routing_logic"
       => IF policy = "None" THEN last.exc = "ValueError"
          ELSE last.exc = "none" /\ last.url = policy

\* C25: the monitor is made once.  A construction that finds the monitor, with
\* no window or with any window, returns that instance with the window of its
\* first construction and leaves everything the monitor has recorded as it was;
\* a construction without a window that finds no monitor raises and installs
\* none.
C25_MonitorSingleton ==
  [][last'.op \in {"initialize_request_stats_monitor", "get_request_stats_monitor"}
       => IF "RequestStatsMonitor" \in DOMAIN instances
          THEN /\ last'.exc = "none"
               /\ last'.url = "RequestStatsMonitor"
               /\ "RequestStatsMonitor" \in DOMAIN instances'
               /\ instances'["RequestStatsMonitor"] = instances["RequestStatsMonitor"]
               /\ Monitor' = Monitor
          ELSE last'.path = "None"
                 => /\ last'.exc = "ValueError"
                    /\ "RequestStatsMonitor" \notin DOMAIN instances']_vars

\* the monitor of window 1 has recorded an arrival and is constructed again with
\* window 2
C25_Witness ==
  /\ last.op = "initialize_request_stats_monitor" /\ last.path = "2" /\ last.exc = "none"
  /\ "RequestStatsMonitor" \in DOMAIN instances
  /\ instances["RequestStatsMonitor"].arg = "1"
  /\ "a" \in DOMAIN request_arrival_time

\* the entries the last sweep had admitted to url before its k-th admission
AdmittedBefore(url, k) == Cardinality({j \in 1..(k - 1) : sweep.admitted[j].url = url})

\* the queue length of url as the k-th admission of the last sweep saw it: the
\* requests in prefill and in decoding when the sweep began, and the entries
\* the sweep had admitted to url by then
QueueLen(url, k) ==
  (Load(url) - AdmittedBefore(url, Len(sweep.admitted) + 1)) + AdmittedBefore(url, k)

\* url passed the head-room test for the entry e at the k-th admission
Admissible(e, url, k) ==
  TOTAL_NUMBER_OF_BLOCKS - (Projected(url, k - 1) + NeedBlocks(e.prefill_tokens)) >= MinFree

\* C26: the target of every entry a sweep admits is one of the entry's own
\* endpoints, passes the head-room test, and is the first in the entry's order
\* among the admissible endpoints of least projected queue length (in prefill
\* plus in decoding at the snapshot, plus one per entry this sweep admitted to
\* the url before).
C26_TargetFirstLeastQueued ==
  (sweep.ran /\ last.exc = "none") =>
    \A k \in 1..Len(sweep.admitted) :
       LET e == sweep.before[k]
           url == sweep.admitted[k].url
       IN /\ e.request_id = sweep.admitted[k].request_id
          /\ \E i \in 1..Len(e.endpoints) :
               /\ e.endpoints[i] = url
               /\ Admissible(e, url, k)
               /\ \A j \in 1..Len(e.endpoints) :
                    Admissible(e, e.endpoints[j], k)
                      => QueueLen(url, k) <= QueueLen(e.endpoints[j], k)
               /\ \A j \in 1..(i - 1) :
                    Admissible(e, e.endpoints[j], k)
                      => QueueLen(e.endpoints[j], k) > QueueLen(url, k)

\* a sweep admitted an entry listed as r2, r1 to r1, which had the shorter queue,
\* although r2 passed the head-room test as well
C26_Witness ==
  /\ sweep.ran /\ last.exc = "none"
  /\ \E k \in 1..Len(sweep.admitted) :
       /\ sweep.before[k].endpoints = <<"r2", "r1">>
       /\ sweep.admitted[k].url = "r1"
       /\ Admissible(sweep.before[k], "r2", k)

\* the urls the last sweep called on_request_routed for
ReceivedAdmission(url) ==
  \E id \in Range(sweep.routed) : id \in Get(in_prefill_requests_ids, url, {})

\* C27: at the end of every sweep the blocks the sweep counts on a url, allocated
\* and pending with its own admissions, are at least the blocks the monitor
\* estimates on that url at that moment, allocated plus pending; and on every
\* url that received an admission the monitor's estimate leaves at least
\* floor(TOTAL_BLOCKS * SAFETY_FRACTION) blocks free.
C27_SweepConservative ==
  sweep.ran =>
    \A url \in DOMAIN sweep.allocated_blocks :
       /\ Projected(url, Len(sweep.admitted)) >= BlocksOn(url)
       /\ ReceivedAdmission(url) => TOTAL_NUMBER_OF_BLOCKS - BlocksOn(url) >= MinFree

\* the requests that were admitted and have not ended: a completion is yet to
\* come for each of them
InFlight == {id \in Ids : \/ phase[id] \in {"started", "streaming"}
                          \/ phase[id] = "waiting" /\ future[id] \in Urls}

\* every request that ended did so with a normal on_request_complete
EndedNormally ==
  Cardinality({id \in Ids : phase[id] = "done"})
    = SumOver(finished_requests, DOMAIN finished_requests)

\* every queued entry has endpoints and fits a replica that is idle
EntriesFit ==
  \A i \in 1..Len(queue) :
     /\ queue[i].endpoints # <<>>
     /\ NeedBlocks(queue[i].prefill_tokens) <= TOTAL_NUMBER_OF_BLOCKS - MinFree

\* C28: the queue drains.  When every queued entry has endpoints and fits an idle
\* replica and every admitted request ends with a normal completion and its
\* sweep, the queued entries do not outlast the admitted requests: while the
\* queue is not empty a request is in flight whose completion sweep is yet to
\* look at the queue.  (With no request in flight and no further route_request
\* no sweep runs again, and the entries are never admitted.)
C28_QueueDrains ==
  (queue # <<>> /\ EntriesFit /\ EndedNormally) => InFlight # {}

\* the last call ended a request on the kill path of the monitor
EndedByKill ==
  \/ last.op = "on_request_kill"
  \/ last.op = "on_request_complete" /\ last.path = "kill"

\* the monitor's estimate leaves room on url for the entry qr
RoomOn(qr, url) ==
  TOTAL_NUMBER_OF_BLOCKS - (BlocksOn(url) + NeedBlocks(qr.prefill_tokens)) >= MinFree

\* C29: the capacity a kill frees is used.  Once a request has ended through
\* on_request_kill, called directly or from on_request_complete's fallback, no
\* entry is left waiting at the head of the queue for which one of its
\* endpoints has room: it was admitted without a further route_request or
\* normal completion.
C29_KillCapacityUsed ==
  (EndedByKill /\ queue # <<>> /\ future[queue[1].request_id] = "pending")
    => \A url \in Range(queue[1].endpoints) : ~RoomOn(queue[1], url)

\* C30: every id in in_prefill_requests_ids[url] has an arrival record, whatever
\* the order of the hooks (on_request_routed after the id's kill or completion,
\* or without an arrival), so get_request_stats, and with it the snapshot a
\* sweep begins with, never fails on a missing arrival record.
C30_PrefillHasArrival ==
  /\ \A url \in DOMAIN in_prefill_requests_ids :
        in_prefill_requests_ids[url] \subseteq DOMAIN request_arrival_time
  /\ last.op \in {"get_request_stats", "route_request"} => last.exc # "KeyError"

\* C31: after every hook, for every url and id, (url, id) has a first token
\* time exactly when id is in the decoding set of url.
C31_FirstTokenIffDecoding ==
  \A url \in Urls, id \in Ids :
     (<<url, id>> \in DOMAIN first_token_time) <=> InSet(in_decoding_requests_ids, url, id)

\* the first token of a came on r1 while b was not in decoding there
C31_Witness ==
  /\ last.op = "on_request_response" /\ last.path = "first" /\ last.exc = "none"
  /\ last.url = "r1" /\ last.id = "a"
  /\ <<"r1", "a">> \in DOMAIN first_token_time
  /\ InSet(in_decoding_requests_ids, "r1", "a")
  /\ ~InSet(in_decoding_requests_ids, "r1", "b")

\* C32: on_request_complete for an id whose arrival time or first token time is
\* missing does what on_request_kill does: it returns normally, adds nothing
\* to the finished count and records no latency and no decoding length sample.
C32_CompleteFallsBackToKill ==
  [][(last'.op = "on_request_complete" /\ last'.path = "kill")
       => /\ last'.exc = "none"
          /\ finished_requests' = finished_requests
          /\ latency_monitors' = latency_monitors
          /\ decoding_length_monitors' = decoding_length_monitors]_vars

\* the finished count of url
Finished(url) == Get(finished_requests, url, 0)

\* C33: the finished count of a url never decreases; it grows by exactly one
\* with every on_request_complete on the normal path and with nothing else, so
\* a repeated on_request_complete for an id that has completed or was killed
\* adds nothing.
C33_FinishedCountsOnce ==
  [][\A url \in Urls :
       Finished(url)' =
          IF last'.op = "on_request_complete" /\ last'.path = "normal" /\ last'.url = url
          THEN Finished(url) + 1
          ELSE Finished(url)]_vars

\* on_request_complete was called again for a request that had completed
C33_Witness ==
  /\ last.op = "on_request_complete" /\ last.path = "kill" /\ last.exc = "none"
  /\ last.url = "r1" /\ last.id = "a"
  /\ Finished("r1") = 1
  /\ "a" \notin DOMAIN request_arrival_time
  /\ "b" \in DOMAIN request_arrival_time

\* the newest sample of the window w is value at timestamp
NewestSample(w, timestamp, value) ==
  /\ Len(w.timestamps) > 0 /\ Len(w.values) = Len(w.timestamps)
  /\ w.timestamps[Len(w.timestamps)] = timestamp
  /\ w.values[Len(w.values)] = value

\* C34: for an id with an arrival record that is in prefill on url, the first
\* token response moves id from the in-prefill set of url to its in-decoding
\* set, sets the first token time to t, records t - arrival time as a TTFT
\* sample and counts one decode token more (one, when there was no count);
\* any other response changes nothing but the decode token count, by one.
C34_ResponseEffects ==
  [][(last'.op = "on_request_response" /\ last'.exc = "none")
       => LET url == last'.url
              id == last'.id
          IN /\ (last'.path = "first" /\ id \in DOMAIN request_arrival_time
                   /\ InSet(in_prefill_requests_ids, url, id))
                  => /\ TokensOf(request_decode_tokens', url, id)
                          = TokensOf(request_decode_tokens, url, id) + 1
                     /\ ~InSet(in_prefill_requests_ids', url, id)
                     /\ InSet(in_decoding_requests_ids', url, id)
                     /\ first_token_time'[<<url, id>>] = now
                     /\ NewestSample(ttft_monitors'[url], now, now - request_arrival_time[id])
                     /\ request_arrival_time' = request_arrival_time
             /\ last'.path = "next"
                  => /\ TokensOf(request_decode_tokens', url, id)
                          = TokensOf(request_decode_tokens, url, id) + 1
                     /\ [Monitor EXCEPT !.request_decode_tokens = request_decode_tokens']
                          = Monitor'
                     /\ \A c \in HookCalls :
                          c # <<url, id>>
                            => TokensOf(request_decode_tokens', c[1], c[2])
                                 = TokensOf(request_decode_tokens, c[1], c[2])]_vars

\* the first token of a request came after a token had been counted for it
C34_Witness ==
  /\ last.op = "on_request_response" /\ last.path = "first" /\ last.exc = "none"
  /\ InSet(in_decoding_requests_ids, last.url, last.id)
  /\ TokensOf(request_decode_tokens, last.url, last.id) = 2
  /\ now = 1 /\ request_arrival_time[last.id] = 0

\* the last call is one that may take a decode token count away
RemovesTokens == last.op \in {"on_request_complete", "on_request_kill"}

\* the last call was a first token response for an id without arrival record,
\* which the monitor answers with on_request_kill
GhostFirstToken ==
  /\ last.op = "on_request_response" /\ last.path = "first"
  /\ last.id \notin DOMAIN request_arrival_time

\* C35, as stated: the decode token count of (url, id) never gets lower and is
\* never removed by a hook other than on_request_complete and on_request_kill.
C35_TokensNeverLowered ==
  [][\A c \in HookCalls :
       (c[1] \in DOMAIN request_decode_tokens /\ c[2] \in DOMAIN request_decode_tokens[c[1]]
          /\ ~RemovesTokens')
         => /\ c[1] \in DOMAIN request_decode_tokens'
            /\ c[2] \in DOMAIN request_decode_tokens'[c[1]]
            /\ request_decode_tokens'[c[1]][c[2]] >= request_decode_tokens[c[1]][c[2]]]_vars

\* C35, amended: the decode token count of (url, id) never gets lower and is
\* removed only by on_request_complete, by on_request_kill, and by a first
\* token response for an id that has no arrival record, which runs
\* on_request_kill.
C35_TokensLoweredOnlyByKill ==
  [][\A c \in HookCalls :
       (c[1] \in DOMAIN request_decode_tokens /\ c[2] \in DOMAIN request_decode_tokens[c[1]]
          /\ ~RemovesTokens' /\ ~(GhostFirstToken' /\ last'.url = c[1] /\ last'.id = c[2]))
         => /\ c[1] \in DOMAIN request_decode_tokens'
            /\ c[2] \in DOMAIN request_decode_tokens'[c[1]]
            /\ request_decode_tokens'[c[1]][c[2]] >= request_decode_tokens[c[1]][c[2]]]_vars

\* a first token response of a request with arrival record raised the count to 2
C35_Witness ==
  /\ last.op = "on_request_response" /\ last.path = "first" /\ last.exc = "none"
  /\ last.id \in DOMAIN request_arrival_time
  /\ TokensOf(request_decode_tokens, last.url, last.id) = 2

\* C36: on_request_kill is idempotent: in every state of the monitor a second
\* on_request_kill(url, id) right after the first returns normally and leaves
\* the monitor as the first one left it.
C36_KillIdempotent ==
  \A c \in HookCalls :
     LET once == on_request_kill(Monitor, c[1], c[2])
         twice == on_request_kill(once.st, c[1], c[2])
     IN twice.exc = "none" /\ twice.st = once.st

\* C37: on_request_swapped adds exactly one to the swapped count of its url,
\* starting from 0 when the url has none, and changes nothing else in the
\* monitor.
C37_SwappedCountsOnly ==
  [][last'.op = "on_request_swapped"
       => /\ last'.exc = "none"
          /\ Get(swapped_requests', last'.url, 0) = Get(swapped_requests, last'.url, 0) + 1
          /\ \A url \in DOMAIN swapped_requests :
               url # last'.url => /\ url \in DOMAIN swapped_requests'
                                  /\ swapped_requests'[url] = swapped_requests[url]
          /\ DOMAIN swapped_requests' = DOMAIN swapped_requests \cup {last'.url}
          /\ [Monitor EXCEPT !.swapped_requests = swapped_requests'] = Monitor']_vars

\* a request in decoding was swapped
C37_Witness ==
  /\ last.op = "on_request_swapped" /\ last.url = "r1"
  /\ Get(swapped_requests, "r1", 0) = 1
  /\ InSet(in_decoding_requests_ids, "r1", "a")
  /\ "r1" \in DOMAIN ttft_monitors

\* the samples of a window as <<timestamp, value>> pairs in arrival order
Samples(w) == [i \in 1..Len(w.timestamps) |-> <<w.timestamps[i], w.values[i]>>]

\* the samples of w that are not older than the window that ends at timestamp
Retained(w, timestamp) ==
  SelectSeq(Samples(w), LAMBDA sample : sample[1] >= timestamp - sliding_window_size)

\* C38: on one window fed non-decreasing timestamps, update(t, v) leaves exactly
\* the samples retained before whose timestamp is at least t - W, in arrival
\* order, followed by (t, v); update_no_value(t) leaves exactly those samples and
\* appends nothing; the timestamps and the values are equally many in every state
C38_WindowRetains ==
  [][/\ Len(qps_monitors'["r1"].timestamps) = Len(qps_monitors'["r1"].values)
     /\ Len(qps_monitors["r1"].timestamps) = Len(qps_monitors["r1"].values)
     /\ last'.op = "update" =>
          Samples(qps_monitors'["r1"]) =
            Append(Retained(qps_monitors["r1"], last'.path), <<last'.path, last'.id>>)
     /\ last'.op = "update_no_value" =>
          Samples(qps_monitors'["r1"]) = Retained(qps_monitors["r1"], last'.path)]_vars

\* an update evicted the oldest sample, kept one of the same age as the limit and
\* a later one, and appended its own
C38_Witness ==
  /\ last.op = "update"
  /\ last.path = 3
  /\ qps_monitors["r1"].timestamps = <<2, 2, 3>>
  /\ clock = 5

\* C39: every HRA entry whose future is unresolved is in the queue of the policy
\* that get() returns now, so that a later sweep can still resolve it; so it is
\* after a reconfigure that was called while the queue held entries
C39_NoOrphanedEntry ==
  \A id \in Ids :
     future[id] = "pending" =>
        /\ get_routing_logic(instances).exc = "none"
        /\ get_routing_logic(instances).ret = "hra"
        /\ \E i \in 1..Len(queue) : queue[i].request_id = id

====
